---- MODULE Spec2Model ----
(***************************************************************************)
(* docflow-ai ingestion pipeline: the normalizer service (whitespace       *)
(* normalisation, sentence splitting, greedy chunk packing, metadata and   *)
(* external_id derivation), the cleaner service (_clean_text and           *)
(* TextCleaner.clean), the item models of the stage boundaries and the     *)
(* normalizer and indexer endpoints that carry the PipelineContext.        *)
(*                                                                         *)
(* A Python str is a sequence of one-character strings.  An Optional[str]  *)
(* is a sequence of at most one str: << >> is None, << s >> is the str s.  *)
(***************************************************************************)
EXTENDS Integers, Sequences, FiniteSets, TLC

VARIABLES
    max_chunk_chars,  \* TextNormalizer._config.max_chunk_chars
    text,             \* argument of _build_chunks
    sentences,        \* _build_chunks: sentences not yet visited by the for loop
    chunks,           \* _build_chunks: chunks
    current_parts,    \* _build_chunks: current_parts
    current_len,      \* _build_chunks: current_len
    pc,               \* position of the running call
    items,            \* argument of normalize
    item_i,           \* normalize: position of the for loop in items (from 1)
    normalized,       \* normalize: normalized, the documents built so far
    origin,           \* for each document of normalized, the position of its item
    previous,         \* outcome of the preceding normalize call on the same items
    calls,            \* number of normalize calls started
    clock,            \* the UTC clock read by datetime.now
    alone,            \* position of the item a call is given alone, 0: whole list
    request,          \* the HTTP request a stage endpoint is serving
    response,         \* the HTTP response of the endpoint
    tokens,           \* the pieces the argument of _clean_text is written with
    raw,              \* argument of _clean_text (`raw` in TextCleaner.clean)
    cleaning_text,    \* _clean_text: text, as the steps rebind it
    css_pass,         \* _clean_text: iterations of `for _ in range(3)` run
    clean_items,      \* argument of TextCleaner.clean
    result,           \* TextCleaner.clean: result
    init_arg,         \* argument max_chunk_chars of TextNormalizer.__init__
    window_start,     \* _build_chunks: start, inside the while loop
    ingest_calls,     \* the requests the indexer has sent to the Core API
    stage,            \* the item model being constructed at a stage boundary
    candidate,        \* the fields the item model is constructed from
    space_lookups,    \* Core API: KnowledgeSpace lookups made by the handlers
    indexed_documents,\* Core API: the documents added to the vector index
    files,            \* argument of decode_to_file_contents
    out,              \* decode_to_file_contents: out
    total,            \* decode_to_file_contents: total
    max_file_bytes,   \* UploadedFileDecoder._max_file_bytes
    max_total_bytes,  \* UploadedFileDecoder._max_total_bytes
    urls,             \* argument of fetch_urls
    max_connections,  \* argument of fetch_urls
    semaphore,        \* fetch_urls: the value of the asyncio.Semaphore
    tasks,            \* fetch_urls: where each _fetch_one task is
    results           \* fetch_urls: what each finished task returned or raised

chunkVars == <<text, sentences, chunks, current_parts, current_len>>
normVars == <<items, item_i, normalized, origin, previous, calls, clock, alone>>
httpVars == <<request, response, ingest_calls>>
cleanVars == <<tokens, raw, cleaning_text, css_pass, clean_items, result>>
ctorVars == <<init_arg, window_start>>
stageVars == <<stage, candidate>>
coreVars == <<space_lookups, indexed_documents>>
decodeVars == <<files, out, total, max_file_bytes, max_total_bytes>>
fetchVars == <<urls, max_connections, semaphore, tasks, results>>
scraperVars == <<coreVars, decodeVars, fetchVars>>
vars == <<max_chunk_chars, pc, chunkVars, normVars, httpVars, cleanVars,
          ctorVars, stageVars, scraperVars>>

(***************************************************************************)
(* Bounds of the model.                                                    *)
(***************************************************************************)
MaxTextLen == 6
MaxChunkChars == 3
MaxContentLen == 2
MaxConfigChars == 2
MaxItems == 2
MaxClock == 1
MaxRequestItems == 1
MaxHtmlTokens == 4
MaxCssTokens == 4
MaxCleanItems == 2
MaxIndexDocs == 2
MaxCoreItems == 1
MaxFiles == 2
MaxB64Tokens == 2
MaxUrls == 3
MaxStacked == 3
MaxConnections == 2

(***************************************************************************)
(* Characters.                                                             *)
(***************************************************************************)
Alphabet == {"a", ".", "?", " ", "\n"}

\* the character U+00A0 (no-break space), which &nbsp; decodes to
Nbsp == "U+00A0"

\* the characters Python's \s and str.strip() treat as whitespace
IsSpace(c) == c \in {" ", "\t", "\n", "\r", "\f", Nbsp}

\* the character class [.!?] of _SENTENCE_SPLIT_RE
IsSentenceEnd(c) == c \in {".", "!", "?"}

\* no request is being served
NoRequest == [route |-> "", context |-> << >>, items |-> << >>]
NoResponse == [status |-> 0, body |-> [detail |-> ""]]

RECURSIVE Concat(_)
Concat(seqs) == IF seqs = << >> THEN << >> ELSE Head(seqs) \o Concat(Tail(seqs))

StrsUpTo(alphabet, n) == UNION {[1..k -> alphabet] : k \in 0..n}

Min(a, b) == IF a <= b THEN a ELSE b

(***************************************************************************)
(* str.strip(): leading and trailing whitespace removed.                   *)
(***************************************************************************)
RECURSIVE LStrip(_)
LStrip(s) ==
    IF s = << >> THEN << >>
    ELSE IF IsSpace(Head(s)) THEN LStrip(Tail(s)) ELSE s

RECURSIVE RStrip(_)
RStrip(s) ==
    IF s = << >> THEN << >>
    ELSE IF IsSpace(s[Len(s)]) THEN RStrip(SubSeq(s, 1, Len(s) - 1)) ELSE s

Strip(s) == RStrip(LStrip(s))

(***************************************************************************)
(* _WHITESPACE_RE.sub(" ", text): every maximal run of whitespace becomes  *)
(* one space.                                                              *)
(***************************************************************************)
RECURSIVE CollapseWhitespace(_)
CollapseWhitespace(s) ==
    IF s = << >> THEN << >>
    ELSE IF IsSpace(Head(s))
         THEN <<" ">> \o CollapseWhitespace(LStrip(s))
         ELSE <<Head(s)>> \o CollapseWhitespace(Tail(s))

_normalize_whitespace(s) ==
    IF s = << >> THEN << >> ELSE Strip(CollapseWhitespace(s))

(***************************************************************************)
(* _SENTENCE_SPLIT_RE.split(text): the text is cut at every whitespace run *)
(* whose first character follows one of . ! ? ; the run itself is dropped. *)
(* SplitAt(s, i, part) scans s from position i with the piece `part`       *)
(* collected so far.                                                       *)
(***************************************************************************)
RECURSIVE SkipSpaces(_, _)
SkipSpaces(s, i) ==
    IF i <= Len(s) /\ IsSpace(s[i]) THEN SkipSpaces(s, i + 1) ELSE i

RECURSIVE SplitAt(_, _, _)
SplitAt(s, i, part) ==
    IF i > Len(s) THEN <<part>>
    ELSE IF IsSpace(s[i]) /\ i > 1 /\ IsSentenceEnd(s[i - 1])
         THEN <<part>> \o SplitAt(s, SkipSpaces(s, i), << >>)
         ELSE SplitAt(s, i + 1, Append(part, s[i]))

_SENTENCE_SPLIT_RE_split(s) == SplitAt(s, 1, << >>)

\* the for loop of _split_into_sentences: strip each part, keep the non-empty
RECURSIVE StrippedNonEmpty(_)
StrippedNonEmpty(parts) ==
    IF parts = << >> THEN << >>
    ELSE LET part == Strip(Head(parts))
         IN  (IF part # << >> THEN <<part>> ELSE << >>)
                 \o StrippedNonEmpty(Tail(parts))

_split_into_sentences(s) ==
    LET t == Strip(s)
    IN  IF t = << >> THEN << >>
        ELSE LET found == StrippedNonEmpty(_SENTENCE_SPLIT_RE_split(t))
             IN  IF found # << >> THEN found ELSE <<t>>

(***************************************************************************)
(* " ".join(parts)                                                         *)
(***************************************************************************)
RECURSIVE Join(_)
Join(parts) ==
    IF parts = << >> THEN << >>
    ELSE IF Len(parts) = 1 THEN parts[1]
    ELSE parts[1] \o <<" ">> \o Join(Tail(parts))

(***************************************************************************)
(* _build_chunks, the while loop that cuts an oversized sentence:          *)
(* sentence[start:end] with end = min(start + max_len, sent_len), start    *)
(* counted from 0 as in the source.                                        *)
(***************************************************************************)
\* the window end taken one character too far
WindowEnd_OneMore(start, max_len, sent_len) == Min(start + max_len + 1, sent_len)

WindowEnd(start, max_len, sent_len) == Min(start + max_len, sent_len)

RECURSIVE Windows(_, _, _)
Windows(sentence, start, max_len) ==
    IF start < Len(sentence)
    THEN LET end == WindowEnd(start, max_len, Len(sentence))
         IN  <<SubSeq(sentence, start + 1, end)>> \o Windows(sentence, end, max_len)
    ELSE << >>

\* +1 for the space between sentences when the chunk is not empty
Extra(parts) == IF parts # << >> THEN 1 ELSE 0

\* the test with the separating space forgotten
Fits_NoExtra(cur_len, extra, sent_len, max_len) == cur_len + sent_len <= max_len

\* the test with a strict comparison: a sentence that fills the chunk exactly
\* is turned away
Fits_Strict(cur_len, extra, sent_len, max_len) == cur_len + extra + sent_len < max_len

\* the test `current_len + extra + sent_len <= max_len`
Fits(cur_len, extra, sent_len, max_len) == cur_len + extra + sent_len <= max_len

\* `if current_parts: chunks.append(" ".join(current_parts))`
Flush(cs, parts) == IF parts # << >> THEN Append(cs, Join(parts)) ELSE cs

(***************************************************************************)
(* One iteration of the for loop of _build_chunks on the loop state        *)
(* st = [chunks, current_parts, current_len].                              *)
(***************************************************************************)
\* the last window left open as the running chunk instead of being emitted
OversizedSentence_KeepLast(st, sentence, max_len) ==
    LET windows == Windows(sentence, 0, max_len)
        last    == windows[Len(windows)]
    IN  [chunks        |-> Flush(st.chunks, st.current_parts)
                               \o SubSeq(windows, 1, Len(windows) - 1),
         current_parts |-> <<last>>,
         current_len   |-> Len(last)]

OversizedSentence(st, sentence, max_len) ==
    [chunks        |-> Flush(st.chunks, st.current_parts)
                           \o Windows(sentence, 0, max_len),
     current_parts |-> << >>,
     current_len   |-> 0]

\* the full chunk replaced by the new sentence without being appended to chunks
PackSentence_NoFlush(st, sentence, max_len) ==
    LET sent_len == Len(sentence)
        extra    == Extra(st.current_parts)
    IN  IF Fits(st.current_len, extra, sent_len, max_len)
        THEN [chunks        |-> st.chunks,
              current_parts |-> Append(st.current_parts, sentence),
              current_len   |-> st.current_len + extra + sent_len]
        ELSE [chunks        |-> st.chunks,
              current_parts |-> <<sentence>>,
              current_len   |-> sent_len]

\* the room left in the running chunk filled with the head of the sentence
PackSentence_Cut(st, sentence, max_len) ==
    LET sent_len == Len(sentence)
        extra    == Extra(st.current_parts)
        room     == max_len - st.current_len - extra
    IN  IF Fits(st.current_len, extra, sent_len, max_len)
        THEN [chunks        |-> st.chunks,
              current_parts |-> Append(st.current_parts, sentence),
              current_len   |-> st.current_len + extra + sent_len]
        ELSE IF room >= 1
             THEN [chunks        |-> Append(st.chunks,
                                            Join(Append(st.current_parts,
                                                        SubSeq(sentence, 1, room)))),
                   current_parts |-> <<SubSeq(sentence, room + 1, sent_len)>>,
                   current_len   |-> sent_len - room]
             ELSE [chunks        |-> Flush(st.chunks, st.current_parts),
                   current_parts |-> <<sentence>>,
                   current_len   |-> sent_len]

PackSentence(st, sentence, max_len) ==
    LET sent_len == Len(sentence)
        extra    == Extra(st.current_parts)
    IN  IF Fits(st.current_len, extra, sent_len, max_len)
        THEN [chunks        |-> st.chunks,
              current_parts |-> Append(st.current_parts, sentence),
              current_len   |-> st.current_len + extra + sent_len]
        ELSE [chunks        |-> Flush(st.chunks, st.current_parts),
              current_parts |-> <<sentence>>,
              current_len   |-> sent_len]

LoopBody(st, sentence, max_len) ==
    IF sentence = << >> THEN st
    ELSE IF Len(sentence) > max_len
         THEN OversizedSentence(st, sentence, max_len)
         ELSE PackSentence(st, sentence, max_len)

RECURSIVE LoopOver(_, _, _)
LoopOver(st, sents, max_len) ==
    IF sents = << >> THEN st
    ELSE LoopOver(LoopBody(st, Head(sents), max_len), Tail(sents), max_len)

(***************************************************************************)
(* TextNormalizer._build_chunks as a function of its argument.             *)
(***************************************************************************)
_build_chunks(t, max_len) ==
    LET norm == _normalize_whitespace(t)
    IN  IF norm = << >> THEN << >>
        ELSE LET st == LoopOver([chunks |-> << >>, current_parts |-> << >>,
                                 current_len |-> 0],
                                _split_into_sentences(norm), max_len)
             IN  Flush(st.chunks, st.current_parts)

(***************************************************************************)
(* _build_chunks step by step: the call, one action per loop iteration,    *)
(* the return.                                                             *)
(***************************************************************************)
Texts == StrsUpTo(Alphabet, MaxTextLen)

InitChunk ==
    /\ max_chunk_chars \in 1..MaxChunkChars
    /\ text \in Texts
    /\ sentences = << >>
    /\ chunks = << >>
    /\ current_parts = << >>
    /\ current_len = 0
    /\ pc = "call"
    /\ items = << >>
    /\ item_i = 1
    /\ normalized = << >>
    /\ origin = << >>
    /\ previous = [status |-> "none", docs |-> << >>]
    /\ calls = 0
    /\ clock = 0
    /\ alone = 0
    /\ request = NoRequest
    /\ response = NoResponse
    /\ tokens = << >>
    /\ raw = << >>
    /\ cleaning_text = << >>
    /\ css_pass = 0
    /\ clean_items = << >>
    /\ result = << >>
    /\ init_arg = max_chunk_chars
    /\ window_start = 0
    /\ ingest_calls = << >>
    /\ space_lookups = 0
    /\ indexed_documents = << >>
    /\ files = << >>
    /\ out = << >>
    /\ total = 0
    /\ max_file_bytes = 0
    /\ max_total_bytes = 0
    /\ urls = << >>
    /\ max_connections = 0
    /\ semaphore = 0
    /\ tasks = << >>
    /\ results = << >>
    /\ stage = ""
    /\ candidate = << >>

BuildChunksEnter ==
    /\ pc = "call"
    /\ LET norm == _normalize_whitespace(text)
       IN  IF norm = << >>
           THEN /\ pc' = "return"
                /\ sentences' = << >>
           ELSE /\ pc' = "loop"
                /\ sentences' = _split_into_sentences(norm)
    /\ UNCHANGED <<max_chunk_chars, text, chunks, current_parts, current_len, normVars, httpVars, cleanVars,
                   ctorVars,
                   stageVars,
                   scraperVars>>

BuildChunksLoop ==
    /\ pc = "loop"
    /\ sentences # << >>
    /\ LET st == LoopBody([chunks |-> chunks, current_parts |-> current_parts,
                           current_len |-> current_len],
                          Head(sentences), max_chunk_chars)
       IN  /\ chunks' = st.chunks
           /\ current_parts' = st.current_parts
           /\ current_len' = st.current_len
    /\ sentences' = Tail(sentences)
    /\ UNCHANGED <<max_chunk_chars, text, pc, normVars, httpVars, cleanVars,
                   ctorVars,
                   stageVars,
                   scraperVars>>

BuildChunksReturn ==
    /\ pc = "loop"
    /\ sentences = << >>
    /\ chunks' = Flush(chunks, current_parts)
    /\ pc' = "return"
    /\ UNCHANGED <<max_chunk_chars, text, sentences, current_parts, current_len, normVars, httpVars, cleanVars,
                   ctorVars,
                   stageVars,
                   scraperVars>>

NextChunk == BuildChunksEnter \/ BuildChunksLoop \/ BuildChunksReturn

SpecChunk == InitChunk /\ [][NextChunk]_vars

(***************************************************************************)
(* The normalizer's DTOs.                                                  *)
(***************************************************************************)
None == << >>
Some(v) == <<v>>

\* a truthy Optional[str]: neither None nor ""
Truthy(opt) == opt # None /\ opt[1] # << >>

UpperLetters == <<"A","B","C","D","E","F","G","H","I","J","K","L","M",
                  "N","O","P","Q","R","S","T","U","V","W","X","Y","Z">>
LowerLetters == <<"a","b","c","d","e","f","g","h","i","j","k","l","m",
                  "n","o","p","q","r","s","t","u","v","w","x","y","z">>

\* str.lower()
LowerChar(c) ==
    IF \E k \in 1..Len(UpperLetters) : UpperLetters[k] = c
    THEN LowerLetters[CHOOSE k \in 1..Len(UpperLetters) : UpperLetters[k] = c]
    ELSE c

Lower(str) == [k \in 1..Len(str) |-> LowerChar(str[k])]

SourceFile == <<"f", "i", "l", "e">>
SourceHttp == <<"h", "t", "t", "p">>

\* NormalizerItemIn: Field(min_length=1) on source and validate_location
NormalizerItemInValid(item) ==
    /\ Len(item.source) >= 1
    /\ ~(Lower(item.source) = SourceFile /\ ~Truthy(item.path))
    /\ ~(Lower(item.source) = SourceHttp /\ ~Truthy(item.url))

\* Metadata: the Field constraints (created_at is an ISO timestamp, never empty)
MetadataValid(m) ==
    /\ Len(m.source) >= 1
    /\ Len(m.path) >= 1
    /\ m.chunk_index >= 0
    /\ m.total_chunks >= 1

\* NormalizedDocument: the Field constraints
NormalizedDocumentValid(doc) ==
    /\ Len(doc.external_id) >= 1
    /\ Len(doc.text) >= 1
    /\ MetadataValid(doc.metadata)

(***************************************************************************)
(* The inputs of normalize: lists of valid NormalizerItemIn.               *)
(***************************************************************************)
ContentAlphabet == {"a", " "}
Sources == {SourceFile, SourceHttp}
PathValues == {None, Some(<< >>), Some(<<"p">>)}
UrlValues == {None, Some(<<"u">>), Some(<<"v">>)}

NormalizerItems ==
    {item \in [source : Sources, path : PathValues, url : UrlValues,
               raw_content : {<< >>},
               cleaned_content : StrsUpTo(ContentAlphabet, MaxContentLen)] :
        NormalizerItemInValid(item)}

ItemListsUpTo(max_items) == UNION {[1..n -> NormalizerItems] : n \in 0..max_items}

(***************************************************************************)
(* str() of an int and of an Optional[str] inside an f-string.             *)
(***************************************************************************)
Digits == <<"0", "1", "2", "3", "4", "5", "6", "7", "8", "9">>

RECURSIVE StrInt(_)
StrInt(n) ==
    IF n < 10 THEN <<Digits[n + 1]>>
    ELSE StrInt(n \div 10) \o <<Digits[(n % 10) + 1]>>

StrOpt(opt) == IF opt = None THEN <<"N", "o", "n", "e">> ELSE opt[1]

\* external_id made unique with the time of the call
ExternalId_Stamped(item, idx) ==
    item.source \o <<":">> \o StrOpt(item.path) \o <<":">> \o StrInt(idx)
        \o <<"@">> \o StrInt(clock)

\* external_id = f"{item.source}:{item.path}:{idx}"
ExternalId(item, idx) ==
    item.source \o <<":">> \o StrOpt(item.path) \o <<":">> \o StrInt(idx)

\* the url taken before the path
MetaPath_UrlFirst(item) ==
    IF item.url # None THEN item.url[1]
    ELSE IF item.path # None THEN item.path[1]
    ELSE << >>

\* meta_path: item.path, else str(item.url), else ""
MetaPath(item) ==
    IF item.path # None THEN item.path[1]
    ELSE IF item.url # None THEN item.url[1]
    ELSE << >>

\* enumerate(chunks, 1)
ChunkIndex_FromOne(k) == k

\* enumerate(chunks): the index of the k-th chunk, k counted from 1
ChunkIndex(k) == k - 1

\* the NormalizedDocument built for the k-th chunk of an item
Document(item, cks, k, created_at) ==
    [external_id |-> ExternalId(item, ChunkIndex(k)),
     text        |-> cks[k],
     metadata    |-> [source       |-> item.source,
                      path         |-> MetaPath(item),
                      url          |-> item.url,
                      created_at   |-> created_at,
                      chunk_index  |-> ChunkIndex(k),
                      total_chunks |-> Len(cks)]]

\* chunk_index counted on from the documents the call has already built
ItemDocuments_Running(item, cks, created_at) ==
    [k \in 1..Len(cks) |->
        [Document(item, cks, k, created_at) EXCEPT
            !.metadata.chunk_index = Len(normalized) + k - 1]]

ItemDocuments(item, cks, created_at) ==
    [k \in 1..Len(cks) |-> Document(item, cks, k, created_at)]

(***************************************************************************)
(* TextNormalizer.normalize, one action per iteration of `for item in      *)
(* items`.  A pydantic ValidationError leaves the call with nothing        *)
(* returned.                                                               *)
(***************************************************************************)
Init ==
    /\ max_chunk_chars \in 1..MaxConfigChars
    /\ items \in ItemListsUpTo(MaxItems)
    /\ item_i = 1
    /\ normalized = << >>
    /\ origin = << >>
    /\ previous = [status |-> "none", docs |-> << >>]
    /\ calls = 1
    /\ clock = 0
    /\ alone = 0
    /\ pc = "loop"
    /\ text = << >>
    /\ sentences = << >>
    /\ chunks = << >>
    /\ current_parts = << >>
    /\ current_len = 0
    /\ request = NoRequest
    /\ response = NoResponse
    /\ tokens = << >>
    /\ raw = << >>
    /\ cleaning_text = << >>
    /\ css_pass = 0
    /\ clean_items = << >>
    /\ result = << >>
    /\ init_arg = max_chunk_chars
    /\ window_start = 0
    /\ ingest_calls = << >>
    /\ space_lookups = 0
    /\ indexed_documents = << >>
    /\ files = << >>
    /\ out = << >>
    /\ total = 0
    /\ max_file_bytes = 0
    /\ max_total_bytes = 0
    /\ urls = << >>
    /\ max_connections = 0
    /\ semaphore = 0
    /\ tasks = << >>
    /\ results = << >>
    /\ stage = ""
    /\ candidate = << >>

\* `break` in the place of `continue`
NormalizeSkip_Break ==
    /\ pc = "loop"
    /\ item_i <= Len(items)
    /\ _build_chunks(items[item_i].cleaned_content, max_chunk_chars) = << >>
    /\ item_i' = Len(items) + 1
    /\ UNCHANGED <<max_chunk_chars, pc, chunkVars, items, normalized, origin,
                   previous, calls, clock, alone, httpVars, cleanVars,
                   ctorVars,
                   stageVars,
                   scraperVars>>

\* `if not chunks: continue`
NormalizeSkip ==
    /\ pc = "loop"
    /\ item_i <= Len(items)
    /\ _build_chunks(items[item_i].cleaned_content, max_chunk_chars) = << >>
    /\ item_i' = item_i + 1
    /\ UNCHANGED <<max_chunk_chars, pc, chunkVars, items, normalized, origin,
                   previous, calls, clock, alone, httpVars, cleanVars,
                   ctorVars,
                   stageVars,
                   scraperVars>>

\* the item has chunks: created_at is read once, every chunk becomes a document
NormalizeItem ==
    /\ pc = "loop"
    /\ item_i <= Len(items)
    /\ LET item == items[item_i]
           cks  == _build_chunks(item.cleaned_content, max_chunk_chars)
       IN  /\ cks # << >>
           /\ \E now \in clock..MaxClock :
                  LET docs == ItemDocuments(item, cks, now)
                  IN  /\ clock' = now
                      /\ IF \A k \in 1..Len(docs) : NormalizedDocumentValid(docs[k])
                         THEN /\ normalized' = normalized \o docs
                              /\ origin' = origin \o [k \in 1..Len(docs) |-> item_i]
                              /\ item_i' = item_i + 1
                              /\ pc' = "loop"
                         ELSE /\ normalized' = << >>
                              /\ origin' = << >>
                              /\ item_i' = item_i
                              /\ pc' = "raised"
    /\ UNCHANGED <<max_chunk_chars, chunkVars, items, previous, calls, alone, httpVars, cleanVars,
                   ctorVars,
                   stageVars,
                   scraperVars>>

\* `return normalized`
NormalizeReturn ==
    /\ pc = "loop"
    /\ item_i > Len(items)
    /\ pc' = "returned"
    /\ UNCHANGED <<max_chunk_chars, chunkVars, normVars, httpVars, cleanVars,
                   ctorVars,
                   stageVars,
                   scraperVars>>

\* normalize is called once more on the same items
NormalizeAgain ==
    /\ pc \in {"returned", "raised"}
    /\ calls < 2
    /\ previous' = [status |-> pc, docs |-> normalized]
    /\ calls' = calls + 1
    /\ item_i' = 1
    /\ normalized' = << >>
    /\ origin' = << >>
    /\ pc' = "loop"
    /\ UNCHANGED <<max_chunk_chars, chunkVars, items, clock, alone, httpVars, cleanVars,
                   ctorVars,
                   stageVars,
                   scraperVars>>

\* the documents of `docs` that come from item j, in order
DocumentsOf(docs, orig, j) ==
    LET ks == {k \in 1..Len(docs) : orig[k] = j}
        nth(n) == CHOOSE k \in ks : Cardinality({x \in ks : x < k}) = n - 1
    IN  [n \in 1..Cardinality(ks) |-> docs[nth(n)]]

\* after a call that returned, normalize is called on one of its items alone;
\* `previous` keeps the documents the first call built for that item and the
\* number of documents it had built before them
NormalizeAlone ==
    /\ pc = "returned"
    /\ calls < 2
    /\ \E j \in 1..Len(items) :
           /\ alone' = j
           /\ items' = <<items[j]>>
           /\ previous' = [status |-> pc,
                           docs   |-> DocumentsOf(normalized, origin, j),
                           before |-> Cardinality({k \in 1..Len(normalized) :
                                                      origin[k] < j})]
    /\ calls' = calls + 1
    /\ item_i' = 1
    /\ normalized' = << >>
    /\ origin' = << >>
    /\ pc' = "loop"
    /\ UNCHANGED <<max_chunk_chars, chunkVars, clock, httpVars, cleanVars,
                   ctorVars,
                   stageVars,
                   scraperVars>>

Next ==
    \/ NormalizeSkip
    \/ NormalizeItem
    \/ NormalizeReturn
    \/ NormalizeAgain
    \/ NormalizeAlone

Spec == Init /\ [][Next]_vars

(***************************************************************************)
(* The normalizer service's endpoint, POST /normalize.  FastAPI validates  *)
(* the body against NormalizeRequest (422 when it fails) and turns an      *)
(* exception raised by the handler into a 500 response.                    *)
(***************************************************************************)
DefaultMaxChunkChars == 1000

\* normalizer_service PipelineContext: space_id and started_at of min_length 1
PipelineContextValid(ctx) ==
    /\ Len(ctx.space_id) >= 1
    /\ Len(ctx.started_at) >= 1

Contexts ==
    [space_id   : {<< >>, <<" ">>, <<"s">>, <<" ", "s">>},
     tenant_id  : {None, Some(<<"t">>)},
     run_id     : {None, Some(<<"r">>)},
     started_at : {<<"0">>, <<"1">>}]

NormalizeRequestValid(req) ==
    /\ PipelineContextValid(req.context)
    /\ \A i \in 1..Len(req.items) : NormalizerItemInValid(req.items[i])

\* a pydantic model built from keyword arguments: every required field given
ModelBuilt(required, kwargs) == required \subseteq DOMAIN kwargs

\* NormalizeResponse: context and items, both without default
NormalizeResponseFields == {"context", "items"}

InitEndpoint ==
    /\ max_chunk_chars = DefaultMaxChunkChars
    /\ request \in [route   : {"/normalize"},
                    context : Contexts,
                    items   : ItemListsUpTo(MaxRequestItems)]
    /\ response = NoResponse
    /\ pc = "received"
    /\ items = << >>
    /\ item_i = 1
    /\ normalized = << >>
    /\ origin = << >>
    /\ previous = [status |-> "none", docs |-> << >>]
    /\ calls = 0
    /\ clock = 0
    /\ alone = 0
    /\ text = << >>
    /\ sentences = << >>
    /\ chunks = << >>
    /\ current_parts = << >>
    /\ current_len = 0
    /\ tokens = << >>
    /\ raw = << >>
    /\ cleaning_text = << >>
    /\ css_pass = 0
    /\ clean_items = << >>
    /\ result = << >>
    /\ init_arg = max_chunk_chars
    /\ window_start = 0
    /\ ingest_calls = << >>
    /\ space_lookups = 0
    /\ indexed_documents = << >>
    /\ files = << >>
    /\ out = << >>
    /\ total = 0
    /\ max_file_bytes = 0
    /\ max_total_bytes = 0
    /\ urls = << >>
    /\ max_connections = 0
    /\ semaphore = 0
    /\ tasks = << >>
    /\ results = << >>
    /\ stage = ""
    /\ candidate = << >>

\* the body fails validation: 422, the handler does not run
NormalizeRejected ==
    /\ pc = "received"
    /\ request.route = "/normalize"
    /\ ~NormalizeRequestValid(request)
    /\ response' = [status |-> 422, body |-> [detail |-> "validation"]]
    /\ pc' = "responded"
    /\ UNCHANGED <<max_chunk_chars, chunkVars, normVars, request, ingest_calls, cleanVars,
                   ctorVars,
                   stageVars,
                   scraperVars>>

\* normalize_endpoint: `_normalizer.normalize(request.items)` is called
NormalizeEndpointCall ==
    /\ pc = "received"
    /\ request.route = "/normalize"
    /\ NormalizeRequestValid(request)
    /\ items' = request.items
    /\ item_i' = 1
    /\ normalized' = << >>
    /\ origin' = << >>
    /\ calls' = calls + 1
    /\ pc' = "loop"
    /\ UNCHANGED <<max_chunk_chars, chunkVars, previous, clock, alone, httpVars, cleanVars,
                   ctorVars,
                   stageVars,
                   scraperVars>>

\* normalize_endpoint: `return NormalizeResponse(items=normalized_items)`
NormalizeEndpointReturn ==
    /\ pc \in {"returned", "raised"}
    /\ request.route = "/normalize"
    /\ LET kwargs == [items |-> normalized]
       IN  IF pc = "returned" /\ ModelBuilt(NormalizeResponseFields, kwargs)
           THEN response' = [status |-> 200, body |-> kwargs]
           ELSE response' = [status |-> 500, body |-> [detail |-> "error"]]
    /\ pc' = "responded"
    /\ UNCHANGED <<max_chunk_chars, chunkVars, normVars, request, ingest_calls, cleanVars,
                   ctorVars,
                   stageVars,
                   scraperVars>>

NextEndpoint ==
    \/ NormalizeRejected
    \/ NormalizeEndpointCall
    \/ NormalizeSkip
    \/ NormalizeItem
    \/ NormalizeReturn
    \/ NormalizeEndpointReturn

SpecEndpoint == InitEndpoint /\ [][NextEndpoint]_vars

(***************************************************************************)
(* The indexer service's endpoint, POST /index/{space_id}.  The body is    *)
(* validated against IndexRequest; an exception other than HTTPException   *)
(* raised by the handler becomes a 500 response.                           *)
(***************************************************************************)
\* indexer_service PipelineContext: space_id and started_at of min_length 1
IndexContextValid(ctx) ==
    /\ Len(ctx.space_id) >= 1
    /\ Len(ctx.started_at) >= 1

\* indexer_service Metadata and NormalizedDocument: the Field constraints
IndexDocumentValid(doc) ==
    /\ Len(doc.external_id) >= 1
    /\ Len(doc.text) >= 1
    /\ Len(doc.metadata.source) >= 1
    /\ Len(doc.metadata.path) >= 1
    /\ Len(doc.metadata.title) >= 1
    /\ Len(doc.metadata.created_at) >= 1
    /\ doc.metadata.chunk_index >= 0
    /\ doc.metadata.total_chunks >= 1

IndexRequestValid(req) ==
    /\ IndexContextValid(req.context)
    /\ \A i \in 1..Len(req.items) : IndexDocumentValid(req.items[i])

IndexDocuments ==
    [external_id : {<< >>, <<"e">>},
     text        : {<<"a">>},
     metadata    : [source       : {SourceFile},
                    path         : {<<"p">>},
                    url          : {None},
                    title        : {<<"p">>},
                    created_at   : {<<"0">>},
                    chunk_index  : {0},
                    total_chunks : {0, 1}]]

IndexDocumentListsUpTo(max_docs) ==
    UNION {[1..n -> IndexDocuments] : n \in 0..max_docs}

\* IndexResponse: context and indexed, both without default; indexed >= 0
IndexResponseFields == {"context", "indexed"}

IndexResponseBuilt(kwargs) ==
    /\ ModelBuilt(IndexResponseFields, kwargs)
    /\ kwargs.indexed >= 0

\* build_ingest_payload(*, context, items): no positional parameter, two
\* required keyword-only ones
BuildIngestPayloadParams == [positional |-> 0, keyword_only |-> {"context", "items"}]

\* a Python call binds its arguments, or raises TypeError
CallBinds(params, positional, keywords) ==
    /\ positional <= params.positional
    /\ params.keyword_only \subseteq keywords

\* what the Core API can answer to POST /spaces/{id}/ingest
CoreReplies(documents) ==
    {[kind |-> "http_error", indexed |-> 0], [kind |-> "other", indexed |-> 0]}
        \cup [kind : {"indexed"}, indexed : (0 - 1)..Len(documents)]

InitIndex ==
    /\ max_chunk_chars = DefaultMaxChunkChars
    /\ request \in [route    : {"/index"},
                    space_id : {<<"s">>, <<"z">>},
                    context  : Contexts,
                    items    : IndexDocumentListsUpTo(MaxIndexDocs)]
    /\ response = NoResponse
    /\ pc = "received"
    /\ items = << >>
    /\ item_i = 1
    /\ normalized = << >>
    /\ origin = << >>
    /\ previous = [status |-> "none", docs |-> << >>]
    /\ calls = 0
    /\ clock = 0
    /\ alone = 0
    /\ text = << >>
    /\ sentences = << >>
    /\ chunks = << >>
    /\ current_parts = << >>
    /\ current_len = 0
    /\ tokens = << >>
    /\ raw = << >>
    /\ cleaning_text = << >>
    /\ css_pass = 0
    /\ clean_items = << >>
    /\ result = << >>
    /\ init_arg = max_chunk_chars
    /\ window_start = 0
    /\ ingest_calls = << >>
    /\ space_lookups = 0
    /\ indexed_documents = << >>
    /\ files = << >>
    /\ out = << >>
    /\ total = 0
    /\ max_file_bytes = 0
    /\ max_total_bytes = 0
    /\ urls = << >>
    /\ max_connections = 0
    /\ semaphore = 0
    /\ tasks = << >>
    /\ results = << >>
    /\ stage = ""
    /\ candidate = << >>

\* the body fails validation: 422, the handler does not run
IndexRejected ==
    /\ pc = "received"
    /\ request.route = "/index"
    /\ ~IndexRequestValid(request)
    /\ response' = [status |-> 422, body |-> [detail |-> "validation"]]
    /\ pc' = "responded"
    /\ UNCHANGED <<max_chunk_chars, chunkVars, normVars, request, ingest_calls,
                   cleanVars, ctorVars, stageVars,
                   scraperVars>>

\* index_endpoint, `if not documents: return IndexResponse(indexed=0)`
IndexEmpty ==
    /\ pc = "received"
    /\ request.route = "/index"
    /\ IndexRequestValid(request)
    /\ request.items = << >>
    /\ LET kwargs == [indexed |-> 0]
       IN  IF IndexResponseBuilt(kwargs)
           THEN response' = [status |-> 200, body |-> kwargs]
           ELSE response' = [status |-> 500, body |-> [detail |-> "error"]]
    /\ pc' = "responded"
    /\ UNCHANGED <<max_chunk_chars, chunkVars, normVars, request, ingest_calls,
                   cleanVars, ctorVars, stageVars,
                   scraperVars>>

\* index_endpoint with documents: _call_core_ingest calls
\* build_ingest_payload(documents), posts the payload to the Core API and
\* takes `indexed` from the answer; httpx.HTTPError becomes a 502, and the
\* handler ends with `return IndexResponse(indexed=indexed)`
IndexIngest ==
    /\ pc = "received"
    /\ request.route = "/index"
    /\ IndexRequestValid(request)
    /\ request.items # << >>
    /\ IF ~CallBinds(BuildIngestPayloadParams, 1, {})
       THEN /\ response' = [status |-> 500, body |-> [detail |-> "error"]]
            /\ UNCHANGED ingest_calls
       ELSE \E reply \in CoreReplies(request.items) :
               /\ ingest_calls' = Append(ingest_calls,
                                         [space_id  |-> request.space_id,
                                          documents |-> request.items])
               /\ LET indexed == IF reply.kind = "indexed" THEN reply.indexed
                                 ELSE Len(request.items)
                      kwargs  == [indexed |-> indexed]
                  IN  IF reply.kind = "http_error"
                      THEN response' = [status |-> 502, body |-> [detail |-> "core"]]
                      ELSE IF IndexResponseBuilt(kwargs)
                      THEN response' = [status |-> 200, body |-> kwargs]
                      ELSE response' = [status |-> 500, body |-> [detail |-> "error"]]
    /\ pc' = "responded"
    /\ UNCHANGED <<max_chunk_chars, chunkVars, normVars, request, cleanVars,
                   ctorVars, stageVars,
                   scraperVars>>

NextIndex ==
    \/ IndexRejected
    \/ IndexEmpty
    \/ IndexIngest

SpecIndex == InitIndex /\ [][NextIndex]_vars

(***************************************************************************)
(* The Core API: POST /spaces/{space_id}/ingest and /spaces/{space_id}/    *)
(* query.  FastAPI resolves get_optional_principal (401 on bad             *)
(* credentials) and validates the body (422) before the handler runs.      *)
(***************************************************************************)
RoleViewer == "viewer"
RoleEditor == "editor"

\* the Authorization header: absent, unusable, or the token of a user
Credentials == {"none", "invalid", RoleViewer, RoleEditor}

\* get_optional_principal: None without credentials, else the Principal
OptionalPrincipal(creds) ==
    IF creds = "none" THEN None ELSE Some([tenant_id |-> "t", role |-> creds])

\* the role check skipped
IngestForbidden_Never(principal) == FALSE

\* ingest_documents: `principal is not None` and `principal.role == VIEWER`
IngestForbidden(principal) ==
    principal # None /\ principal[1].role = RoleViewer

CoreItems == {[external_id |-> None, text |-> <<"h", "i">>],
              [external_id |-> Some(<<"e">>), text |-> <<"a">>]}

CoreItemListsUpTo(max_docs) == UNION {[1..n -> CoreItems] : n \in 0..max_docs}

InitCore ==
    /\ request \in [route        : {"/ingest", "/query"},
                    space_id     : {<<"s">>, <<"z">>},
                    credentials  : Credentials,
                    body_valid   : BOOLEAN,
                    space_exists : BOOLEAN,
                    items        : CoreItemListsUpTo(MaxCoreItems)]
    /\ response = NoResponse
    /\ pc = "received"
    /\ max_chunk_chars = DefaultMaxChunkChars
    /\ items = << >>
    /\ item_i = 1
    /\ normalized = << >>
    /\ origin = << >>
    /\ previous = [status |-> "none", docs |-> << >>]
    /\ calls = 0
    /\ clock = 0
    /\ alone = 0
    /\ text = << >>
    /\ sentences = << >>
    /\ chunks = << >>
    /\ current_parts = << >>
    /\ current_len = 0
    /\ tokens = << >>
    /\ raw = << >>
    /\ cleaning_text = << >>
    /\ css_pass = 0
    /\ clean_items = << >>
    /\ result = << >>
    /\ init_arg = max_chunk_chars
    /\ window_start = 0
    /\ ingest_calls = << >>
    /\ space_lookups = 0
    /\ indexed_documents = << >>
    /\ files = << >>
    /\ out = << >>
    /\ total = 0
    /\ max_file_bytes = 0
    /\ max_total_bytes = 0
    /\ urls = << >>
    /\ max_connections = 0
    /\ semaphore = 0
    /\ tasks = << >>
    /\ results = << >>
    /\ stage = ""
    /\ candidate = << >>

\* get_current_principal raises HTTPException(401)
CoreUnauthorized ==
    /\ pc = "received"
    /\ request.credentials = "invalid"
    /\ response' = [status |-> 401, body |-> [detail |-> "Invalid token"]]
    /\ pc' = "responded"
    /\ UNCHANGED <<max_chunk_chars, chunkVars, normVars, request, ingest_calls,
                   cleanVars, ctorVars, stageVars, scraperVars>>

\* the body fails validation: 422, the handler does not run
CoreRejected ==
    /\ pc = "received"
    /\ request.credentials # "invalid"
    /\ ~request.body_valid
    /\ response' = [status |-> 422, body |-> [detail |-> "validation"]]
    /\ pc' = "responded"
    /\ UNCHANGED <<max_chunk_chars, chunkVars, normVars, request, ingest_calls,
                   cleanVars, ctorVars, stageVars, scraperVars>>

\* ingest_documents: the role check, the KnowledgeSpace lookup of an
\* authenticated request, then the use case, which inserts the documents one
\* by one; any exception but HTTPException becomes a 500
CoreIngest ==
    /\ pc = "received"
    /\ request.route = "/ingest"
    /\ request.credentials # "invalid"
    /\ request.body_valid
    /\ LET principal == OptionalPrincipal(request.credentials)
       IN  IF IngestForbidden(principal)
           THEN /\ response' = [status |-> 403, body |-> [detail |-> "Forbidden"]]
                /\ UNCHANGED coreVars
           ELSE IF principal # None /\ ~request.space_exists
           THEN /\ response' = [status |-> 404, body |-> [detail |-> "Space not found"]]
                /\ space_lookups' = space_lookups + 1
                /\ UNCHANGED indexed_documents
           ELSE /\ space_lookups' = IF principal # None THEN space_lookups + 1
                                    ELSE space_lookups
                /\ \E n \in 0..Len(request.items) :
                      /\ indexed_documents' = indexed_documents \o
                             [k \in 1..n |-> [space_id |-> request.space_id,
                                              item     |-> request.items[k]]]
                      /\ IF n = Len(request.items)
                         THEN response' = [status |-> 200, body |-> [indexed |-> n]]
                         ELSE response' = [status |-> 500,
                                           body |-> [detail |-> "Failed to index documents"]]
    /\ pc' = "responded"
    /\ UNCHANGED <<max_chunk_chars, chunkVars, normVars, request, ingest_calls,
                   cleanVars, ctorVars, stageVars, decodeVars, fetchVars>>

\* query: the KnowledgeSpace lookup of an authenticated request, then the
\* use case, which answers or fails
CoreQuery ==
    /\ pc = "received"
    /\ request.route = "/query"
    /\ request.credentials # "invalid"
    /\ request.body_valid
    /\ LET principal == OptionalPrincipal(request.credentials)
       IN  IF principal # None /\ ~request.space_exists
           THEN /\ response' = [status |-> 404, body |-> [detail |-> "Space not found"]]
                /\ space_lookups' = space_lookups + 1
           ELSE /\ space_lookups' = IF principal # None THEN space_lookups + 1
                                    ELSE space_lookups
                /\ \E answered \in BOOLEAN :
                      IF answered
                      THEN response' = [status |-> 200, body |-> [answer |-> "a"]]
                      ELSE response' = [status |-> 500, body |-> [detail |-> "Query failed"]]
    /\ pc' = "responded"
    /\ UNCHANGED <<max_chunk_chars, chunkVars, normVars, request, ingest_calls,
                   cleanVars, ctorVars, stageVars, indexed_documents, decodeVars,
                   fetchVars>>

NextCore ==
    \/ CoreUnauthorized
    \/ CoreRejected
    \/ CoreIngest
    \/ CoreQuery

SpecCore == InitCore /\ [][NextCore]_vars

(***************************************************************************)
(* The cleaner service: _clean_text and its regular expressions.  A match  *)
(* is given by the position of its last character; 0 means that the        *)
(* pattern does not match at the position.                                 *)
(***************************************************************************)
Letters ==
    {UpperLetters[k] : k \in 1..Len(UpperLetters)}
        \cup {LowerLetters[k] : k \in 1..Len(LowerLetters)}

\* \w
IsWord(c) == c \in Letters \/ c \in {Digits[k] : k \in 1..Len(Digits)} \/ c = "_"

\* [\w\-]
IsIdent(c) == IsWord(c) \/ c = "-"

\* the least element of a non-empty set of positions, 0 for the empty set
Least(S) == IF S = {} THEN 0 ELSE CHOOSE m \in S : \A x \in S : m <= x

\* the literal `lit` stands in s at position i
LitAt(s, i, lit) ==
    /\ i >= 1
    /\ i + Len(lit) - 1 <= Len(s)
    /\ \A k \in 1..Len(lit) : s[i + k - 1] = lit[k]

\* the same under re.IGNORECASE
LitAtNoCase(s, i, lit) ==
    /\ i >= 1
    /\ i + Len(lit) - 1 <= Len(s)
    /\ \A k \in 1..Len(lit) : LowerChar(s[i + k - 1]) = LowerChar(lit[k])

\* the first position >= i where the literal stands, 0 when there is none
FindLit(s, i, lit) == Least({j \in i..Len(s) : LitAt(s, j, lit)})

FindLitNoCase(s, i, lit) == Least({j \in i..Len(s) : LitAtNoCase(s, j, lit)})

\* pattern.sub(" ", s) from position i on: ends[j] is the end of the match
\* that starts at j; matches are taken left to right and do not overlap
RECURSIVE SubSpace(_, _, _)
SubSpace(s, ends, i) ==
    IF i > Len(s) THEN << >>
    ELSE IF ends[i] # 0
         THEN <<" ">> \o SubSpace(s, ends, ends[i] + 1)
         ELSE <<s[i]>> \o SubSpace(s, ends, i + 1)

(***************************************************************************)
(* html.unescape: &name; and the names that are also decoded without the   *)
(* semicolon.  EntityNames holds the entries of html.entities.html5 that   *)
(* the texts of the model can spell; numeric references do not occur.      *)
(***************************************************************************)
EntityNames ==
    {<<<<"a", "m", "p">>, "&">>,
     <<<<"l", "t">>, "<">>,
     <<<<"g", "t">>, ">">>,
     <<<<"q", "u", "o", "t">>, "\"">>,
     <<<<"n", "b", "s", "p">>, Nbsp>>}

\* html5: every name with and without the final semicolon
InHtml5(name) ==
    \E e \in EntityNames : name = e[1] \/ name = e[1] \o <<";">>

Html5(name) ==
    (CHOOSE e \in EntityNames : name = e[1] \/ name = e[1] \o <<";">>)[2]

\* [^\t\n\f <&#;]
IsCharrefChar(c) == c \notin {"\t", "\n", "\f", " ", "<", "&", "#", ";"}

\* the end of the run [^\t\n\f <&#;]{1,32} that starts at i (i - 1: empty run)
RECURSIVE CharrefRunEnd(_, _, _)
CharrefRunEnd(s, i, n) ==
    IF n < 32 /\ i <= Len(s) /\ IsCharrefChar(s[i])
    THEN CharrefRunEnd(s, i + 1, n + 1)
    ELSE i - 1

\* _charref matched at the & of position i: the end of the match
CharrefEnd(s, i) ==
    LET e == CharrefRunEnd(s, i + 1, 0)
    IN  IF s[i] # "&" \/ e = i THEN 0
        ELSE IF e + 1 <= Len(s) /\ s[e + 1] = ";" THEN e + 1 ELSE e

\* _replace_charref for a named reference
ReplaceCharref(ref) ==
    IF InHtml5(ref) THEN <<Html5(ref)>>
    ELSE LET xs == {x \in 2..(Len(ref) - 1) : InHtml5(SubSeq(ref, 1, x))}
         IN  IF xs # {}
             THEN LET x == CHOOSE m \in xs : \A y \in xs : y <= m
                  IN  <<Html5(SubSeq(ref, 1, x))>> \o SubSeq(ref, x + 1, Len(ref))
             ELSE <<"&">> \o ref

RECURSIVE UnescapeFrom(_, _)
UnescapeFrom(s, i) ==
    IF i > Len(s) THEN << >>
    ELSE LET e == CharrefEnd(s, i)
         IN  IF e # 0
             THEN ReplaceCharref(SubSeq(s, i + 1, e)) \o UnescapeFrom(s, e + 1)
             ELSE <<s[i]>> \o UnescapeFrom(s, i + 1)

\* html.unescape(text)
Unescape(s) == IF \E i \in 1..Len(s) : s[i] = "&" THEN UnescapeFrom(s, 1) ELSE s

(***************************************************************************)
(* _STYLE_SCRIPT_BLOCK_RE = (?is)<(style|script)\b[^>]*>.*?</\1>           *)
(***************************************************************************)
StyleName == <<"s", "t", "y", "l", "e">>
ScriptName == <<"s", "c", "r", "i", "p", "t">>

\* (style|script)\b at position i: the name matched, << >> for none
BlockNameAt(s, i) ==
    LET named(name) ==
            /\ LitAtNoCase(s, i, name)
            /\ ~(i + Len(name) <= Len(s) /\ IsWord(s[i + Len(name)]))
    IN  IF named(StyleName) THEN StyleName
        ELSE IF named(ScriptName) THEN ScriptName
        ELSE << >>

\* the end of the opening tag <name\b[^>]*> that starts at i
OpenTagEnd(s, i) ==
    IF i > Len(s) \/ s[i] # "<" \/ BlockNameAt(s, i + 1) = << >> THEN 0
    ELSE FindLit(s, i + 1 + Len(BlockNameAt(s, i + 1)), <<">">>)

CloseTag(name) == <<"<", "/">> \o name \o <<">">>

StyleScriptEnd(s, i) ==
    LET gt == OpenTagEnd(s, i)
    IN  IF gt = 0 THEN 0
        ELSE LET close == CloseTag(BlockNameAt(s, i + 1))
                 c     == FindLitNoCase(s, gt + 1, close)
             IN  IF c = 0 THEN 0 ELSE c + Len(close) - 1

_STYLE_SCRIPT_BLOCK_RE_sub(s) ==
    SubSpace(s, [i \in 1..Len(s) |-> StyleScriptEnd(s, i)], 1)

(***************************************************************************)
(* _HTML_COMMENT_RE = (?s)<!--.*?-->                                       *)
(***************************************************************************)
CommentEnd(s, i) ==
    IF ~LitAt(s, i, <<"<", "!", "-", "-">>) THEN 0
    ELSE LET c == FindLit(s, i + 4, <<"-", "-", ">">>)
         IN  IF c = 0 THEN 0 ELSE c + 2

_HTML_COMMENT_RE_sub(s) ==
    SubSpace(s, [i \in 1..Len(s) |-> CommentEnd(s, i)], 1)

(***************************************************************************)
(* _TAG_RE = (?s)<[^>]+>                                                   *)
(***************************************************************************)
TagEnd(s, i) ==
    IF s[i] # "<" \/ i + 1 > Len(s) \/ s[i + 1] = ">" THEN 0
    ELSE FindLit(s, i + 2, <<">">>)

_TAG_RE_sub(s) == SubSpace(s, [i \in 1..Len(s) |-> TagEnd(s, i)], 1)

(***************************************************************************)
(* _SELECTOR_RE and _CSS_BLOCK_RE.  A selector can end at several          *)
(* positions; the sets below hold the positions that follow a match.       *)
(***************************************************************************)
\* the positions after [\w\-]* (at least `least` characters) from position p
IdentRun(s, p, least) ==
    {q \in (p + least)..(Len(s) + 1) : \A k \in p..(q - 1) : IsIdent(s[k])}

\* one round of (?:[#.:][\w\-]+|\[[^\]]+\]) from position p
SelectorSuffix(s, p) ==
    IF p > Len(s) THEN {}
    ELSE IF s[p] \in {"#", ".", ":"} THEN IdentRun(s, p + 1, 1)
    ELSE IF s[p] = "[" /\ p + 1 <= Len(s) /\ s[p + 1] # "]"
         THEN LET c == FindLit(s, p + 2, <<"]">>)
              IN  IF c = 0 THEN {} ELSE {c + 1}
    ELSE {}

RECURSIVE SuffixClosure(_, _, _)
SuffixClosure(s, seen, frontier) ==
    IF frontier = {} THEN seen
    ELSE LET more == UNION {SelectorSuffix(s, p) : p \in frontier}
         IN  SuffixClosure(s, seen \cup frontier, more \ (seen \cup frontier))

\* the positions after a match of _SELECTOR_RE that starts at i
SelectorEnds(s, i) ==
    LET starts == {i} \cup (IF i <= Len(s) /\ s[i] \in {"#", "."} THEN {i + 1} ELSE {})
        heads  == {j \in starts : j <= Len(s) /\ (s[j] \in Letters \/ s[j] = "_")}
    IN  SuffixClosure(s, {}, UNION {IdentRun(s, j + 1, 0) : j \in heads})

\* one round of (?:\s*,\s*SELECTOR) from position p
SelectorListStep(s, p) ==
    LET comma == SkipSpaces(s, p)
    IN  IF comma <= Len(s) /\ s[comma] = ","
        THEN SelectorEnds(s, SkipSpaces(s, comma + 1))
        ELSE {}

RECURSIVE ListClosure(_, _, _)
ListClosure(s, seen, frontier) ==
    IF frontier = {} THEN seen
    ELSE LET more == UNION {SelectorListStep(s, p) : p \in frontier}
         IN  ListClosure(s, seen \cup frontier, more \ (seen \cup frontier))

\* a brace block taken for a rule also when it holds no colon
CssBlockEnd_NoColon(s, b) ==
    IF b > Len(s) \/ s[b] # "{" THEN 0 ELSE FindLit(s, b + 1, <<"}">>)

\* the block closed at the last brace of the text
CssBlockEnd_Greedy(s, b) ==
    IF b > Len(s) \/ s[b] # "{" THEN 0
    ELSE LET c == Least({j \in (b + 1)..Len(s) :
                            s[j] = "}" /\ \A k \in (j + 1)..Len(s) : s[k] # "}"})
         IN  IF c # 0 /\ \E k \in (b + 1)..(c - 1) : s[k] = ":" THEN c ELSE 0

\* the end of \{[^}]*:[^}]*\} with the brace at position b
CssBlockEnd(s, b) ==
    IF b > Len(s) \/ s[b] # "{" THEN 0
    ELSE LET c == FindLit(s, b + 1, <<"}">>)
         IN  IF c # 0 /\ \E k \in (b + 1)..(c - 1) : s[k] = ":" THEN c ELSE 0

\* _CSS_BLOCK_RE matched at position i
CssEnd(s, i) ==
    IF i > 1 /\ IsIdent(s[i - 1]) THEN 0
    ELSE LET lists == ListClosure(s, {}, SelectorEnds(s, i))
             ends  == {CssBlockEnd(s, SkipSpaces(s, p)) : p \in lists} \ {0}
         IN  Least(ends)

_CSS_BLOCK_RE_sub(s) == SubSpace(s, [i \in 1..Len(s) |-> CssEnd(s, i)], 1)

\* `for _ in range(3)`
CssPassLimit == 3

\* the loop of step 5 with `left` passes still allowed
RECURSIVE CssPasses(_, _)
CssPasses(s, left) ==
    IF left = 0 THEN s
    ELSE LET new_text == _CSS_BLOCK_RE_sub(s)
         IN  IF new_text = s THEN s ELSE CssPasses(new_text, left - 1)

(***************************************************************************)
(* _clean_text as a function of its argument.                              *)
(***************************************************************************)
_clean_text(s) ==
    IF s = << >> THEN << >>
    ELSE Strip(CollapseWhitespace(
             CssPasses(_TAG_RE_sub(_HTML_COMMENT_RE_sub(
                 _STYLE_SCRIPT_BLOCK_RE_sub(Unescape(s)))), CssPassLimit)))

(***************************************************************************)
(* The texts given to _clean_text: pieces of HTML and pieces of CSS-like   *)
(* text written one after the other.                                       *)
(***************************************************************************)
StyleOpen == <<"<", "s", "t", "y", "l", "e", ">">>
StyleClose == <<"<", "/", "S", "T", "Y", "L", "E", ">">>
ScriptOpen == <<"<", "s", "c", "r", "i", "p", "t", " ", "a", ">">>
ScriptClose == <<"<", "/", "s", "c", "r", "i", "p", "t", ">">>
EscapedStyleClose == <<"&", "l", "t", ";", "/", "s", "t", "y", "l", "e", "&", "g", "t", ";">>
BoldTag == <<"<", "b", ">">>
Comment == <<"<", "!", "-", "-", "c", "-", "-", ">">>
Hidden == <<"x">>
NewLine == <<"\n">>
Space == <<" ">>

HtmlTokens ==
    {StyleOpen, StyleClose, ScriptOpen, ScriptClose, EscapedStyleClose,
     BoldTag, Comment, Hidden, NewLine}

WordTokens == {<<"E", "x">>, <<"D", "o", "m">>}
RuleTokens == {<<"b", "o", "d", "y", "{", "b", ":", "#", "e", "}">>, <<".", "c", ",", " ", "h", "1", " ", "{", "a", ":", "b", "}">>}
BraceText == <<"{", "t", "h", "i", "s", "}">>
BareBlock == <<"{", "a", ":", "b", "}">>

CssTokens == WordTokens \cup RuleTokens \cup {BraceText, BareBlock, Space, NewLine}

TokenSeqsUpTo(toks, n) == UNION {[1..k -> toks] : k \in 0..n}

\* k words each followed by a space, then a rule, then m bare blocks, as in
\* "Ex Ex body{b:#e}{a:b}{a:b}": each pass of step 5 uncovers the next rule
StackedTokens(word, rule, k, m) ==
    [i \in 1..(2 * k + 1 + m) |->
        IF i <= 2 * k THEN (IF i % 2 = 1 THEN word ELSE Space)
        ELSE IF i = 2 * k + 1 THEN rule
        ELSE BareBlock]

StackedInputs(n) ==
    {StackedTokens(word, rule, k, m) :
        word \in WordTokens, rule \in RuleTokens, k \in 0..n, m \in 0..n}

(***************************************************************************)
(* _clean_text step by step: one action per numbered step of the source,   *)
(* one per iteration of the loop of step 5.                                *)
(***************************************************************************)
InitCleanText ==
    /\ tokens \in TokenSeqsUpTo(HtmlTokens, MaxHtmlTokens)
                      \cup TokenSeqsUpTo(CssTokens, MaxCssTokens)
                      \cup StackedInputs(MaxStacked)
    /\ raw = Concat(tokens)
    /\ cleaning_text = raw
    /\ css_pass = 0
    /\ clean_items = << >>
    /\ result = << >>
    /\ init_arg = DefaultMaxChunkChars
    /\ window_start = 0
    /\ ingest_calls = << >>
    /\ space_lookups = 0
    /\ indexed_documents = << >>
    /\ files = << >>
    /\ out = << >>
    /\ total = 0
    /\ max_file_bytes = 0
    /\ max_total_bytes = 0
    /\ urls = << >>
    /\ max_connections = 0
    /\ semaphore = 0
    /\ tasks = << >>
    /\ results = << >>
    /\ stage = ""
    /\ candidate = << >>
    /\ pc = "clean_call"
    /\ max_chunk_chars = DefaultMaxChunkChars
    /\ text = << >>
    /\ sentences = << >>
    /\ chunks = << >>
    /\ current_parts = << >>
    /\ current_len = 0
    /\ items = << >>
    /\ item_i = 1
    /\ normalized = << >>
    /\ origin = << >>
    /\ previous = [status |-> "none", docs |-> << >>]
    /\ calls = 0
    /\ clock = 0
    /\ alone = 0
    /\ request = NoRequest
    /\ response = NoResponse

\* `if not text: return ""`
CleanTextEmpty ==
    /\ pc = "clean_call"
    /\ cleaning_text = << >>
    /\ pc' = "clean_return"
    /\ UNCHANGED <<max_chunk_chars, chunkVars, normVars, httpVars, cleanVars,
                   ctorVars,
                   stageVars,
                   scraperVars>>

\* 1) text = html.unescape(text)
CleanTextUnescape ==
    /\ pc = "clean_call"
    /\ cleaning_text # << >>
    /\ cleaning_text' = Unescape(cleaning_text)
    /\ pc' = "style_script"
    /\ UNCHANGED <<max_chunk_chars, chunkVars, normVars, httpVars, tokens, raw,
                   css_pass, clean_items, result, ctorVars,
                   stageVars,
                   scraperVars>>

\* 2) text = _STYLE_SCRIPT_BLOCK_RE.sub(" ", text)
CleanTextStyleScript ==
    /\ pc = "style_script"
    /\ cleaning_text' = _STYLE_SCRIPT_BLOCK_RE_sub(cleaning_text)
    /\ pc' = "comments"
    /\ UNCHANGED <<max_chunk_chars, chunkVars, normVars, httpVars, tokens, raw,
                   css_pass, clean_items, result, ctorVars,
                   stageVars,
                   scraperVars>>

\* 3) text = _HTML_COMMENT_RE.sub(" ", text)
CleanTextComments ==
    /\ pc = "comments"
    /\ cleaning_text' = _HTML_COMMENT_RE_sub(cleaning_text)
    /\ pc' = "tags"
    /\ UNCHANGED <<max_chunk_chars, chunkVars, normVars, httpVars, tokens, raw,
                   css_pass, clean_items, result, ctorVars,
                   stageVars,
                   scraperVars>>

\* 4) text = _TAG_RE.sub(" ", text)
CleanTextTags ==
    /\ pc = "tags"
    /\ cleaning_text' = _TAG_RE_sub(cleaning_text)
    /\ pc' = "css"
    /\ UNCHANGED <<max_chunk_chars, chunkVars, normVars, httpVars, tokens, raw,
                   css_pass, clean_items, result, ctorVars,
                   stageVars,
                   scraperVars>>

\* the loop without its `break`: every iteration of range(3) is run
CleanTextCssPass_NoBreak ==
    /\ pc = "css"
    /\ css_pass < CssPassLimit
    /\ cleaning_text' = _CSS_BLOCK_RE_sub(cleaning_text)
    /\ pc' = IF css_pass + 1 = CssPassLimit THEN "whitespace" ELSE "css"
    /\ css_pass' = css_pass + 1
    /\ UNCHANGED <<max_chunk_chars, chunkVars, normVars, httpVars, tokens, raw,
                   clean_items, result, ctorVars,
                   stageVars,
                   scraperVars>>

\* 5) one iteration of `for _ in range(3)`: break when the pass changes
\* nothing, leave the loop after the last iteration
CleanTextCssPass ==
    /\ pc = "css"
    /\ css_pass < CssPassLimit
    /\ LET new_text == _CSS_BLOCK_RE_sub(cleaning_text)
       IN  IF new_text = cleaning_text
           THEN /\ pc' = "whitespace"
                /\ cleaning_text' = cleaning_text
           ELSE /\ cleaning_text' = new_text
                /\ pc' = IF css_pass + 1 = CssPassLimit THEN "whitespace" ELSE "css"
    /\ css_pass' = css_pass + 1
    /\ UNCHANGED <<max_chunk_chars, chunkVars, normVars, httpVars, tokens, raw,
                   clean_items, result, ctorVars,
                   stageVars,
                   scraperVars>>

\* 6) text = _WHITESPACE_RE.sub(" ", text); return text.strip()
CleanTextReturn ==
    /\ pc = "whitespace"
    /\ cleaning_text' = Strip(CollapseWhitespace(cleaning_text))
    /\ pc' = "clean_return"
    /\ UNCHANGED <<max_chunk_chars, chunkVars, normVars, httpVars, tokens, raw,
                   css_pass, clean_items, result, ctorVars,
                   stageVars,
                   scraperVars>>

NextCleanText ==
    \/ CleanTextEmpty
    \/ CleanTextUnescape
    \/ CleanTextStyleScript
    \/ CleanTextComments
    \/ CleanTextTags
    \/ CleanTextCssPass
    \/ CleanTextReturn

SpecCleanText == InitCleanText /\ [][NextCleanText]_vars

(***************************************************************************)
(* TextCleaner.clean, one action per iteration of `for item in items`.     *)
(***************************************************************************)
\* cleaner_service ItemBase: Field(min_length=1) on source, validate_location
ItemBaseValid(item) ==
    /\ Len(item.source) >= 1
    /\ ~(Lower(item.source) = SourceFile /\ ~Truthy(item.path))
    /\ ~(Lower(item.source) = SourceHttp /\ ~Truthy(item.url))

CleanContents ==
    {<< >>, Space, Hidden, BoldTag, BoldTag \o Hidden \o NewLine}

CleanItems ==
    {item \in [source : Sources, path : PathValues, url : {None, Some(<<"u">>)},
               content : CleanContents] :
        ItemBaseValid(item)}

CleanItemListsUpTo(max_items) == UNION {[1..n -> CleanItems] : n \in 0..max_items}

\* raw_content filled with the cleaned text
CleanItemOut_RawCleaned(item, raw_content, cleaned_content) ==
    [source          |-> item.source,
     path            |-> item.path,
     url             |-> item.url,
     raw_content     |-> cleaned_content,
     cleaned_content |-> cleaned_content]

\* CleanItemOut(source=item.source, path=item.path, url=item.url,
\*              raw_content=raw, cleaned_content=cleaned)
CleanItemOut(item, raw_content, cleaned_content) ==
    [source          |-> item.source,
     path            |-> item.path,
     url             |-> item.url,
     raw_content     |-> raw_content,
     cleaned_content |-> cleaned_content]

InitClean ==
    /\ clean_items \in CleanItemListsUpTo(MaxCleanItems)
    /\ result = << >>
    /\ init_arg = DefaultMaxChunkChars
    /\ window_start = 0
    /\ ingest_calls = << >>
    /\ space_lookups = 0
    /\ indexed_documents = << >>
    /\ files = << >>
    /\ out = << >>
    /\ total = 0
    /\ max_file_bytes = 0
    /\ max_total_bytes = 0
    /\ urls = << >>
    /\ max_connections = 0
    /\ semaphore = 0
    /\ tasks = << >>
    /\ results = << >>
    /\ stage = ""
    /\ candidate = << >>
    /\ pc = "clean_loop"
    /\ tokens = << >>
    /\ raw = << >>
    /\ cleaning_text = << >>
    /\ css_pass = 0
    /\ max_chunk_chars = DefaultMaxChunkChars
    /\ text = << >>
    /\ sentences = << >>
    /\ chunks = << >>
    /\ current_parts = << >>
    /\ current_len = 0
    /\ items = << >>
    /\ item_i = 1
    /\ normalized = << >>
    /\ origin = << >>
    /\ previous = [status |-> "none", docs |-> << >>]
    /\ calls = 0
    /\ clock = 0
    /\ alone = 0
    /\ request = NoRequest
    /\ response = NoResponse

\* one iteration: raw = item.content or "", cleaned = _clean_text(raw), the
\* CleanItemOut is validated and appended
CleanItem ==
    /\ pc = "clean_loop"
    /\ Len(result) < Len(clean_items)
    /\ LET item == clean_items[Len(result) + 1]
           item_out == CleanItemOut(item, item.content, _clean_text(item.content))
       IN  /\ raw' = item.content
           /\ cleaning_text' = _clean_text(item.content)
           /\ IF ItemBaseValid(item_out)
              THEN /\ result' = Append(result, item_out)
                   /\ pc' = "clean_loop"
              ELSE /\ result' = << >>
                   /\ pc' = "clean_raised"
    /\ UNCHANGED <<max_chunk_chars, chunkVars, normVars, httpVars, tokens,
                   css_pass, clean_items, ctorVars,
                   stageVars,
                   scraperVars>>

\* `return result`
CleanReturn ==
    /\ pc = "clean_loop"
    /\ Len(result) = Len(clean_items)
    /\ pc' = "clean_returned"
    /\ UNCHANGED <<max_chunk_chars, chunkVars, normVars, httpVars, cleanVars,
                   ctorVars,
                   stageVars,
                   scraperVars>>

NextClean == CleanItem \/ CleanReturn

SpecClean == InitClean /\ [][NextClean]_vars

(***************************************************************************)
(* The stage boundaries.  An item enters the pipeline as the fields of a   *)
(* RawItem, of a CleanItemIn or of a NormalizerItemIn; the model is        *)
(* constructed from them (pydantic validates it), the stage processes the  *)
(* item, and its output is handed to the next stage as the integration     *)
(* pipeline does.                                                          *)
(***************************************************************************)
\* the strings pydantic's AnyHttpUrl accepts
HttpUrls == {<<"u">>, <<"v">>}

\* SourceType: the enum's values
SourceTypes == {SourceFile, SourceHttp}

\* RawItem with its location left unchecked
RawItemValid_NoLocation(item) ==
    /\ item.source \in SourceTypes
    /\ item.url # None => item.url[1] \in HttpUrls
    /\ Len(item.content) >= 1

\* RawItem: source is a SourceType, url an AnyHttpUrl, content of
\* min_length 1, and validate_location
RawItemValid(item) ==
    /\ item.source \in SourceTypes
    /\ item.url # None => item.url[1] \in HttpUrls
    /\ Len(item.content) >= 1
    /\ ~(item.source = SourceFile /\ ~Truthy(item.path))
    /\ ~(item.source = SourceHttp /\ item.url = None)

CandidateSources == {SourceFile, SourceHttp, <<"F", "I", "L", "E">>}
CandidateUrls == {None, Some(<< >>), Some(<<"u">>)}
CandidateContents == {<< >>, <<"a">>, BoldTag \o <<"a">>}

\* the fields a RawItem or a CleanItemIn is constructed from
RawCandidates ==
    [source : CandidateSources, path : PathValues, url : CandidateUrls,
     content : CandidateContents]

\* the fields a NormalizerItemIn is constructed from
NormalizerCandidates ==
    [source : CandidateSources, path : PathValues, url : CandidateUrls,
     raw_content : {<< >>}, cleaned_content : {<< >>, <<"a">>}]

InitBoundary ==
    /\ \/ stage \in {"RawItem", "CleanItemIn"} /\ candidate \in RawCandidates
       \/ stage = "NormalizerItemIn" /\ candidate \in NormalizerCandidates
    /\ pc = "construct"
    /\ max_chunk_chars \in 1..MaxConfigChars
    /\ request = NoRequest
    /\ response = NoResponse
    /\ items = << >>
    /\ item_i = 1
    /\ normalized = << >>
    /\ origin = << >>
    /\ previous = [status |-> "none", docs |-> << >>]
    /\ calls = 0
    /\ clock = 0
    /\ alone = 0
    /\ text = << >>
    /\ sentences = << >>
    /\ chunks = << >>
    /\ current_parts = << >>
    /\ current_len = 0
    /\ tokens = << >>
    /\ raw = << >>
    /\ cleaning_text = << >>
    /\ css_pass = 0
    /\ clean_items = << >>
    /\ result = << >>
    /\ init_arg = max_chunk_chars
    /\ window_start = 0
    /\ ingest_calls = << >>
    /\ space_lookups = 0
    /\ indexed_documents = << >>
    /\ files = << >>
    /\ out = << >>
    /\ total = 0
    /\ max_file_bytes = 0
    /\ max_total_bytes = 0
    /\ urls = << >>
    /\ max_connections = 0
    /\ semaphore = 0
    /\ tasks = << >>
    /\ results = << >>

\* RawItem(source=..., path=..., url=..., content=...): a ValidationError, or
\* the item, which the pipeline sends to the cleaner field by field
BuildRawItem ==
    /\ pc = "construct"
    /\ stage = "RawItem"
    /\ IF RawItemValid(candidate)
       THEN stage' = "CleanItemIn" /\ pc' = "construct"
       ELSE stage' = stage /\ pc' = "validation_error"
    /\ UNCHANGED <<max_chunk_chars, chunkVars, normVars, httpVars, cleanVars,
                   ctorVars, candidate,
                   scraperVars>>

\* CleanItemIn(**fields): a ValidationError, or the item TextCleaner.clean is
\* called with
BuildCleanItemIn ==
    /\ pc = "construct"
    /\ stage = "CleanItemIn"
    /\ IF ItemBaseValid(candidate)
       THEN clean_items' = <<candidate>> /\ pc' = "clean_loop"
       ELSE clean_items' = clean_items /\ pc' = "validation_error"
    /\ UNCHANGED <<max_chunk_chars, chunkVars, normVars, httpVars, tokens, raw,
                   cleaning_text, css_pass, result, ctorVars, stageVars,
                   scraperVars>>

\* the CleanItemOut of the cleaner is the body the normalizer is sent
HandToNormalizer ==
    /\ pc = "clean_returned"
    /\ stage = "CleanItemIn"
    /\ stage' = "NormalizerItemIn"
    /\ candidate' = result[1]
    /\ pc' = "construct"
    /\ UNCHANGED <<max_chunk_chars, chunkVars, normVars, httpVars, cleanVars,
                   ctorVars,
                   scraperVars>>

\* NormalizerItemIn(**fields): a ValidationError, or the item
\* TextNormalizer.normalize is called with
BuildNormalizerItemIn ==
    /\ pc = "construct"
    /\ stage = "NormalizerItemIn"
    /\ IF NormalizerItemInValid(candidate)
       THEN /\ items' = <<candidate>>
            /\ calls' = calls + 1
            /\ pc' = "loop"
       ELSE /\ UNCHANGED <<items, calls,
                   scraperVars>>
            /\ pc' = "validation_error"
    /\ UNCHANGED <<max_chunk_chars, chunkVars, item_i, normalized, origin,
                   previous, clock, alone, httpVars, cleanVars, ctorVars,
                   stageVars,
                   scraperVars>>

NextBoundary ==
    \/ BuildRawItem
    \/ BuildCleanItemIn
    \/ CleanItem
    \/ CleanReturn
    \/ HandToNormalizer
    \/ BuildNormalizerItemIn
    \/ NormalizeSkip
    \/ NormalizeItem
    \/ NormalizeReturn

SpecBoundary == InitBoundary /\ [][NextBoundary]_vars

(***************************************************************************)
(* The scraper's UploadedFileDecoder.  bytes are sequences of numbers      *)
(* 0..255; base64.b64decode(data, validate=True) is the strict mode of     *)
(* binascii.a2b_base64: one pass over the characters that tracks the       *)
(* position in the quad and the padding seen.                              *)
(***************************************************************************)
B64Alphabet == UpperLetters \o LowerLetters \o Digits \o <<"+", "/">>

IsB64Char(c) == \E k \in 1..Len(B64Alphabet) : B64Alphabet[k] = c

\* the 6-bit value of a character of the alphabet
B64Value(c) == (CHOOSE k \in 1..Len(B64Alphabet) : B64Alphabet[k] = c) - 1

\* the scan of data[i..]: [ok, vals] where vals are the 6-bit values read
RECURSIVE B64Scan(_, _, _, _, _, _)
B64Scan(data, i, quad_pos, pads, padding_started, vals) ==
    IF i > Len(data)
    THEN [ok |-> quad_pos = 0, vals |-> vals]
    ELSE IF data[i] = "="
    THEN IF quad_pos >= 2 /\ quad_pos + pads + 1 >= 4
         THEN [ok |-> i = Len(data), vals |-> vals]
         ELSE B64Scan(data, i + 1, quad_pos,
                      IF quad_pos >= 2 THEN pads + 1 ELSE pads, TRUE, vals)
    ELSE IF ~IsB64Char(data[i]) \/ padding_started
    THEN [ok |-> FALSE, vals |-> vals]
    ELSE B64Scan(data, i + 1, (quad_pos + 1) % 4, 0, FALSE,
                 Append(vals, B64Value(data[i])))

\* the bytes of the 6-bit values: 3 per full quad, 1 or 2 for a last quad of
\* 2 or 3 values
B64Bytes(vals) ==
    LET n      == Len(vals)
        nbytes == 3 * (n \div 4) + (IF n % 4 >= 2 THEN (n % 4) - 1 ELSE 0)
        byte(k) ==
            LET q == 4 * ((k - 1) \div 3)
                r == (k - 1) % 3
            IN  IF r = 0 THEN vals[q + 1] * 4 + vals[q + 2] \div 16
                ELSE IF r = 1 THEN (vals[q + 2] % 16) * 16 + vals[q + 3] \div 4
                ELSE (vals[q + 3] % 4) * 64 + vals[q + 4]
    IN  [k \in 1..nbytes |-> byte(k)]

\* _b64decode_strict: None for the ValueError, else the bytes
_b64decode_strict(data_b64) ==
    IF data_b64 # << >> /\ data_b64[1] = "=" THEN None
    ELSE LET scan == B64Scan(data_b64, 1, 0, 0, FALSE, << >>)
         IN  IF scan.ok THEN Some(B64Bytes(scan.vals)) ELSE None

ReplacementChar == 65533

\* raw.decode("utf-8", errors="replace") on bytes that are ASCII or stand
\* alone: the code points, U+FFFD for a byte that is not ASCII
DecodeText(bytes) ==
    [k \in 1..Len(bytes) |-> IF bytes[k] < 128 THEN bytes[k] ELSE ReplacementChar]

\* the per-file limit not enforced
FileTooLarge_Never(size, limit) == FALSE

\* `size > self._max_file_bytes`
FileTooLarge(size, limit) == size > limit

\* `total > self._max_total_bytes`
TotalTooLarge(sum, limit) == sum > limit

\* content_b64 values: "QUFB" is AAA, "QQ==" is A, "!" is not base64
B64Tokens == {<<"Q", "U", "F", "B">>, <<"Q", "Q", "=", "=">>, <<"!">>}

UploadedFiles(max_tokens) ==
    [name        : {<<"a">>, <<"b">>},
     content_b64 : {Concat(ts) : ts \in TokenSeqsUpTo(B64Tokens, max_tokens)}]

UploadedFileListsUpTo(max_files, max_tokens) ==
    UNION {[1..n -> UploadedFiles(max_tokens)] : n \in 0..max_files}

InitDecode ==
    /\ files \in UploadedFileListsUpTo(MaxFiles, MaxB64Tokens)
    /\ max_file_bytes \in {1, 3}
    /\ max_total_bytes \in {3, 4}
    /\ out = << >>
    /\ total = 0
    /\ pc = "decode_loop"
    /\ request = NoRequest
    /\ response = NoResponse
    /\ max_chunk_chars = DefaultMaxChunkChars
    /\ items = << >>
    /\ item_i = 1
    /\ normalized = << >>
    /\ origin = << >>
    /\ previous = [status |-> "none", docs |-> << >>]
    /\ calls = 0
    /\ clock = 0
    /\ alone = 0
    /\ text = << >>
    /\ sentences = << >>
    /\ chunks = << >>
    /\ current_parts = << >>
    /\ current_len = 0
    /\ tokens = << >>
    /\ raw = << >>
    /\ cleaning_text = << >>
    /\ css_pass = 0
    /\ clean_items = << >>
    /\ result = << >>
    /\ init_arg = max_chunk_chars
    /\ window_start = 0
    /\ ingest_calls = << >>
    /\ space_lookups = 0
    /\ indexed_documents = << >>
    /\ urls = << >>
    /\ max_connections = 0
    /\ semaphore = 0
    /\ tasks = << >>
    /\ results = << >>
    /\ stage = ""
    /\ candidate = << >>

\* one iteration of `for f in files`: decode, the two limits, append; a
\* ValueError leaves the call
DecodeFile ==
    /\ pc = "decode_loop"
    /\ Len(out) < Len(files)
    /\ LET f       == files[Len(out) + 1]
           decoded == _b64decode_strict(f.content_b64)
       IN  IF decoded = None
           THEN pc' = "decode_raised" /\ UNCHANGED <<out, total>>
           ELSE LET size == Len(decoded[1])
                IN  IF FileTooLarge(size, max_file_bytes)
                    THEN pc' = "decode_raised" /\ UNCHANGED <<out, total>>
                    ELSE /\ total' = total + size
                         /\ IF TotalTooLarge(total + size, max_total_bytes)
                            THEN pc' = "decode_raised" /\ UNCHANGED out
                            ELSE /\ pc' = "decode_loop"
                                 /\ out' = Append(out,
                                        [path    |-> f.name,
                                         content |-> DecodeText(decoded[1])])
    /\ UNCHANGED <<max_chunk_chars, chunkVars, normVars, httpVars, cleanVars,
                   ctorVars, stageVars, coreVars, files, max_file_bytes,
                   max_total_bytes, fetchVars>>

\* `return out`
DecodeReturn ==
    /\ pc = "decode_loop"
    /\ Len(out) = Len(files)
    /\ pc' = "decode_returned"
    /\ UNCHANGED <<max_chunk_chars, chunkVars, normVars, httpVars, cleanVars,
                   ctorVars, stageVars, scraperVars>>

NextDecode == DecodeFile \/ DecodeReturn

SpecDecode == InitDecode /\ [][NextDecode]_vars

(***************************************************************************)
(* The scraper's fetch_urls: one asyncio task per URL, all sharing one     *)
(* asyncio.Semaphore(max_connections).  A task runs from one await to the  *)
(* next without interruption: it acquires the semaphore, waits for the     *)
(* answer of its GET, and on the answer leaves `async with` and finishes.  *)
(* asyncio.gather hands the first exception of a task on to the caller.    *)
(***************************************************************************)
\* what the GET of one URL can end in
FetchOutcomes == {"network_error", "status_500", "ok_text", "ok_empty"}

\* resp.text of a 2xx answer
ResponseText(outcome) == IF outcome = "ok_text" THEN <<"o", "k">> ELSE << >>

\* the slot given back only after a request that succeeded
Released_OnSuccess(value, outcome) ==
    IF outcome \in {"ok_text", "ok_empty"} THEN value + 1 ELSE value

\* Semaphore.release() in __aexit__, whatever happened inside `async with`
Released(value, outcome) == value + 1

NotDone == [kind |-> "pending", item |-> << >>]

\* _fetch_one once the request is over: None after an exception of get or
\* raise_for_status, else RawItem(source=HTTP, url=url, content=resp.text),
\* whose validation error leaves the task
FetchOneResult(url, outcome) ==
    IF outcome \in {"network_error", "status_500"}
    THEN [kind |-> "none", item |-> << >>]
    ELSE LET item == [source |-> SourceHttp, path |-> None, url |-> Some(url),
                      content |-> ResponseText(outcome)]
         IN  IF RawItemValid(item) THEN [kind |-> "item", item |-> item]
             ELSE [kind |-> "raised", item |-> << >>]

\* `[item for item in results if item is not None]`
RECURSIVE NotNone(_)
NotNone(rs) ==
    IF rs = << >> THEN << >>
    ELSE IF Head(rs).kind = "item" THEN <<Head(rs).item>> \o NotNone(Tail(rs))
    ELSE NotNone(Tail(rs))

UrlListsUpTo(max_urls) == UNION {[1..n -> HttpUrls] : n \in 0..max_urls}

InitFetch ==
    /\ urls \in UrlListsUpTo(MaxUrls)
    /\ max_connections \in 0..MaxConnections
    /\ semaphore = 0
    /\ tasks = << >>
    /\ results = << >>
    /\ pc = "fetch_call"
    /\ request = NoRequest
    /\ response = NoResponse
    /\ max_chunk_chars = DefaultMaxChunkChars
    /\ items = << >>
    /\ item_i = 1
    /\ normalized = << >>
    /\ origin = << >>
    /\ previous = [status |-> "none", docs |-> << >>]
    /\ calls = 0
    /\ clock = 0
    /\ alone = 0
    /\ text = << >>
    /\ sentences = << >>
    /\ chunks = << >>
    /\ current_parts = << >>
    /\ current_len = 0
    /\ tokens = << >>
    /\ raw = << >>
    /\ cleaning_text = << >>
    /\ css_pass = 0
    /\ clean_items = << >>
    /\ result = << >>
    /\ init_arg = max_chunk_chars
    /\ window_start = 0
    /\ ingest_calls = << >>
    /\ space_lookups = 0
    /\ indexed_documents = << >>
    /\ files = << >>
    /\ out = << >>
    /\ total = 0
    /\ max_file_bytes = 0
    /\ max_total_bytes = 0
    /\ stage = ""
    /\ candidate = << >>

\* `if not urls: return []`
FetchEmpty ==
    /\ pc = "fetch_call"
    /\ urls = << >>
    /\ pc' = "fetch_returned"
    /\ UNCHANGED <<max_chunk_chars, chunkVars, normVars, httpVars, cleanVars,
                   ctorVars, stageVars, scraperVars>>

\* the semaphore and one task per URL are created, gather awaits them
FetchStart ==
    /\ pc = "fetch_call"
    /\ urls # << >>
    /\ semaphore' = max_connections
    /\ tasks' = [i \in 1..Len(urls) |-> "created"]
    /\ results' = [i \in 1..Len(urls) |-> NotDone]
    /\ pc' = "fetch_gather"
    /\ UNCHANGED <<max_chunk_chars, chunkVars, normVars, httpVars, cleanVars,
                   ctorVars, stageVars, coreVars, decodeVars, urls,
                   max_connections>>

\* a task enters `async with semaphore` and sends its GET
TaskAcquire ==
    /\ pc \in {"fetch_gather", "fetch_raised"}
    /\ \E i \in 1..Len(tasks) :
          /\ tasks[i] = "created"
          /\ semaphore > 0
          /\ semaphore' = semaphore - 1
          /\ tasks' = [tasks EXCEPT ![i] = "in_flight"]
    /\ UNCHANGED <<max_chunk_chars, pc, chunkVars, normVars, httpVars, cleanVars,
                   ctorVars, stageVars, coreVars, decodeVars, urls,
                   max_connections, results>>

\* the GET of a task ends: the task leaves `async with`, and returns None,
\* returns its RawItem or raises
TaskResponse ==
    /\ pc \in {"fetch_gather", "fetch_raised"}
    /\ \E i \in 1..Len(tasks), outcome \in FetchOutcomes :
          /\ tasks[i] = "in_flight"
          /\ semaphore' = Released(semaphore, outcome)
          /\ tasks' = [tasks EXCEPT ![i] = "done"]
          /\ results' = [results EXCEPT ![i] = FetchOneResult(urls[i], outcome)]
    /\ UNCHANGED <<max_chunk_chars, pc, chunkVars, normVars, httpVars, cleanVars,
                   ctorVars, stageVars, coreVars, decodeVars, urls,
                   max_connections>>

\* gather: the exception of a task is raised in fetch_urls
FetchRaise ==
    /\ pc = "fetch_gather"
    /\ \E i \in 1..Len(results) : results[i].kind = "raised"
    /\ pc' = "fetch_raised"
    /\ UNCHANGED <<max_chunk_chars, chunkVars, normVars, httpVars, cleanVars,
                   ctorVars, stageVars, scraperVars>>

\* gather: every task has returned; fetch_urls returns NotNone(results)
FetchReturn ==
    /\ pc = "fetch_gather"
    /\ \A i \in 1..Len(results) : results[i].kind \in {"none", "item"}
    /\ pc' = "fetch_returned"
    /\ UNCHANGED <<max_chunk_chars, chunkVars, normVars, httpVars, cleanVars,
                   ctorVars, stageVars, scraperVars>>

NextFetch ==
    \/ FetchEmpty
    \/ FetchStart
    \/ TaskAcquire
    \/ TaskResponse
    \/ FetchRaise
    \/ FetchReturn

SpecFetch == InitFetch /\ [][NextFetch]_vars

(***************************************************************************)
(* TextNormalizer.__init__ followed by a call of _build_chunks in which    *)
(* every iteration of the while loop that cuts an oversized sentence is a  *)
(* step of its own.  max_chunk_chars = 0 stands for "no TextNormalizer".   *)
(***************************************************************************)
ConfigTexts == StrsUpTo({"a", ".", " "}, MaxTextLen)

InitConfig ==
    /\ init_arg \in (0 - MaxChunkChars)..MaxChunkChars
    /\ text \in ConfigTexts
    /\ max_chunk_chars = 0
    /\ pc = "new"
    /\ window_start = 0
    /\ ingest_calls = << >>
    /\ space_lookups = 0
    /\ indexed_documents = << >>
    /\ files = << >>
    /\ out = << >>
    /\ total = 0
    /\ max_file_bytes = 0
    /\ max_total_bytes = 0
    /\ urls = << >>
    /\ max_connections = 0
    /\ semaphore = 0
    /\ tasks = << >>
    /\ results = << >>
    /\ stage = ""
    /\ candidate = << >>
    /\ sentences = << >>
    /\ chunks = << >>
    /\ current_parts = << >>
    /\ current_len = 0
    /\ items = << >>
    /\ item_i = 1
    /\ normalized = << >>
    /\ origin = << >>
    /\ previous = [status |-> "none", docs |-> << >>]
    /\ calls = 0
    /\ clock = 0
    /\ alone = 0
    /\ request = NoRequest
    /\ response = NoResponse
    /\ tokens = << >>
    /\ raw = << >>
    /\ cleaning_text = << >>
    /\ css_pass = 0
    /\ clean_items = << >>
    /\ result = << >>

\* __init__ without the check of its argument
Construct_Unchecked ==
    /\ pc = "new"
    /\ max_chunk_chars' = init_arg
    /\ pc' = "call"
    /\ UNCHANGED <<chunkVars, normVars, httpVars, cleanVars, ctorVars,
                   stageVars,
                   scraperVars>>

\* __init__: ValueError for max_chunk_chars <= 0, else the frozen _config
Construct ==
    /\ pc = "new"
    /\ IF init_arg <= 0
       THEN /\ pc' = "value_error"
            /\ max_chunk_chars' = max_chunk_chars
       ELSE /\ pc' = "call"
            /\ max_chunk_chars' = init_arg
    /\ UNCHANGED <<chunkVars, normVars, httpVars, cleanVars, ctorVars,
                   stageVars,
                   scraperVars>>

\* a sentence that is not longer than max_len: skipped when empty, else packed
BuildChunksPack ==
    /\ pc = "loop"
    /\ sentences # << >>
    /\ Len(Head(sentences)) <= max_chunk_chars
    /\ LET st == LoopBody([chunks |-> chunks, current_parts |-> current_parts,
                           current_len |-> current_len],
                          Head(sentences), max_chunk_chars)
       IN  /\ chunks' = st.chunks
           /\ current_parts' = st.current_parts
           /\ current_len' = st.current_len
    /\ sentences' = Tail(sentences)
    /\ UNCHANGED <<max_chunk_chars, text, pc, normVars, httpVars, cleanVars,
                   ctorVars,
                   stageVars,
                   scraperVars>>

\* `if sent_len > max_len`: the running chunk is flushed, start = 0
BuildChunksOversized ==
    /\ pc = "loop"
    /\ sentences # << >>
    /\ Len(Head(sentences)) > max_chunk_chars
    /\ chunks' = Flush(chunks, current_parts)
    /\ current_parts' = << >>
    /\ current_len' = 0
    /\ window_start' = 0
    /\ pc' = "window"
    /\ UNCHANGED <<max_chunk_chars, text, sentences, normVars, httpVars,
                   cleanVars, init_arg,
                   stageVars,
                   scraperVars>>

\* one iteration of `while start < sent_len`
BuildChunksWindow ==
    /\ pc = "window"
    /\ window_start < Len(Head(sentences))
    /\ LET end == WindowEnd(window_start, max_chunk_chars, Len(Head(sentences)))
       IN  /\ chunks' = Append(chunks, SubSeq(Head(sentences), window_start + 1, end))
           /\ window_start' = end
    /\ UNCHANGED <<max_chunk_chars, text, sentences, current_parts, current_len,
                   pc, normVars, httpVars, cleanVars, init_arg,
                   stageVars,
                   scraperVars>>

\* the while loop is left: `continue` with the next sentence
BuildChunksWindowsDone ==
    /\ pc = "window"
    /\ window_start >= Len(Head(sentences))
    /\ sentences' = Tail(sentences)
    /\ pc' = "loop"
    /\ UNCHANGED <<max_chunk_chars, text, chunks, current_parts, current_len,
                   normVars, httpVars, cleanVars, ctorVars,
                   stageVars,
                   scraperVars>>

NextConfig ==
    \/ Construct
    \/ BuildChunksEnter
    \/ BuildChunksPack
    \/ BuildChunksOversized
    \/ BuildChunksWindow
    \/ BuildChunksWindowsDone
    \/ BuildChunksReturn

SpecConfig == InitConfig /\ [][NextConfig]_vars

(***************************************************************************)
(* Properties of _build_chunks (checked under SpecChunk).                  *)
(***************************************************************************)
NonSpace(s) == SelectSeq(s, LAMBDA c : ~IsSpace(c))

\* t is its own whitespace-normal form: single spaces only, none at the ends
IsNormalized(t) ==
    /\ \A i \in 1..Len(t) : IsSpace(t[i]) => t[i] = " "
    /\ \A i \in 1..(Len(t) - 1) : ~(t[i] = " " /\ t[i + 1] = " ")
    /\ t # << >> => (t[1] # " " /\ t[Len(t)] # " ")

\* t has no sentence boundary: no . ! ? followed by whitespace
NoBoundary(t) == \A i \in 1..(Len(t) - 1) : ~(IsSentenceEnd(t[i]) /\ IsSpace(t[i + 1]))

CeilDiv(a, b) == (a + b - 1) \div b

\* C1: every chunk built by _build_chunks, at every point of the call, has a
\* length between 1 and max_chunk_chars inclusive.
C1_ChunkLengthBounded ==
    \A i \in 1..Len(chunks) :
        /\ 1 <= Len(chunks[i])
        /\ Len(chunks[i]) <= max_chunk_chars

\* C1 witness: a finished call on a text that mixes a short sentence with an
\* oversized one.
C1_Witness ==
    /\ pc = "return"
    /\ LET sents == _split_into_sentences(_normalize_whitespace(text))
       IN  /\ \E i \in 1..Len(sents) : Len(sents[i]) > max_chunk_chars
           /\ \E i \in 1..Len(sents) : Len(sents[i]) <= max_chunk_chars
    /\ Len(chunks) >= 3

\* C2: when _build_chunks returns, the non-whitespace characters of the
\* chunks, concatenated in chunk order, are exactly the non-whitespace
\* characters of the input in the same order.
C2_NoCharacterLoss ==
    pc = "return" => NonSpace(Concat(chunks)) = NonSpace(text)

\* C2 witness: a finished call that produced several chunks, one of them packed
\* from two sentences, from a text with whitespace the chunks no longer hold.
C2_Witness ==
    /\ pc = "return"
    /\ Len(_split_into_sentences(_normalize_whitespace(text))) = 3
    /\ Len(chunks) = 2
    /\ Len(NonSpace(text)) >= 3
    /\ Len(Concat(chunks)) < Len(text)

\* C9: a text that is one sentence of length L > max_chunk_chars is returned
\* as ceil(L / max_chunk_chars) consecutive windows taken left to right, each
\* of max_chunk_chars characters except the last, which holds the rest.
C9_HardSplitWindows ==
    (/\ pc = "return"
     /\ IsNormalized(text)
     /\ NoBoundary(text)
     /\ Len(text) > max_chunk_chars)
    => LET L == Len(text)
           n == CeilDiv(L, max_chunk_chars)
       IN  /\ Len(chunks) = n
           /\ \A i \in 1..Len(chunks) :
                  chunks[i] = SubSeq(text, (i - 1) * max_chunk_chars + 1,
                                     Min(i * max_chunk_chars, L))
           /\ \A i \in 1..(Len(chunks) - 1) : Len(chunks[i]) = max_chunk_chars
           /\ Len(chunks[n]) = L - max_chunk_chars * (n - 1)

\* C9 witness: a sentence of 5 characters cut with max_chunk_chars = 2 into
\* windows of lengths 2, 2, 1.
C9_Witness ==
    /\ pc = "return"
    /\ IsNormalized(text)
    /\ NoBoundary(text)
    /\ Len(text) = 5
    /\ max_chunk_chars = 2
    /\ Len(chunks) = 3
    /\ Len(chunks[3]) = 1

(***************************************************************************)
(* Properties of normalize (checked under Spec).                           *)
(***************************************************************************)
IsBlank(str) == \A i \in 1..Len(str) : IsSpace(str[i])

\* positions in normalized of the documents that come from item i
Siblings(i) == {k \in 1..Len(normalized) : origin[k] = i}

SetMin(S) == CHOOSE m \in S : \A x \in S : m <= x

\* C3: the documents of one item carry chunk_index 0, 1, ..., total_chunks - 1
\* in emission order, the same total_chunks, equal to their number (>= 1), and
\* the same created_at.
C3_ChunkIndicesContiguous ==
    \A k \in 1..Len(normalized) :
        LET sib   == Siblings(origin[k])
            first == SetMin(sib)
            m     == normalized[k].metadata
        IN  /\ m.chunk_index = k - first
            /\ m.total_chunks = Cardinality(sib)
            /\ m.total_chunks >= 1
            /\ m.chunk_index < m.total_chunks
            /\ m.created_at = normalized[first].metadata.created_at

\* C3 witness: a returned call with two items that have documents, one of them
\* with two chunks, stamped at different times.
C3_Witness ==
    /\ pc = "returned"
    /\ Cardinality(Siblings(1)) = 2
    /\ Cardinality(Siblings(2)) = 1
    /\ normalized[1].metadata.created_at # normalized[3].metadata.created_at

\* C4: an item whose cleaned_content is empty or only whitespace has no
\* document, never makes the call raise and does not stop the loop (every item
\* with other content has its documents when the call returns); no document
\* has an empty text.
C4_EmptyItemsSkipped ==
    /\ \A k \in 1..Len(normalized) : normalized[k].text # << >>
    /\ \A i \in 1..Len(items) :
           IsBlank(items[i].cleaned_content) => Siblings(i) = {}
    /\ pc = "raised" => ~IsBlank(items[item_i].cleaned_content)
    /\ pc = "returned" =>
           \A i \in 1..Len(items) :
               ~IsBlank(items[i].cleaned_content) => Siblings(i) # {}

\* C4 witness: a returned call whose first item is whitespace-only and whose
\* second item has a document.
C4_Witness ==
    /\ pc = "returned"
    /\ Len(items) = 2
    /\ items[1].cleaned_content = <<" ">>
    /\ Siblings(1) = {}
    /\ Siblings(2) # {}

\* C6: the external_id of every returned document is source, ":", the location stored in
\* metadata.path (the path, or the URL of an item without a path), ":", and the
\* chunk_index.
C6_ExternalIdUsesLocation ==
    pc = "returned" =>
    \A k \in 1..Len(normalized) :
        LET item == items[origin[k]]
            loc  == IF item.path # None THEN item.path[1] ELSE item.url[1]
        IN  /\ loc = normalized[k].metadata.path
            /\ normalized[k].external_id =
                   item.source \o <<":">> \o loc \o <<":">>
                       \o StrInt(normalized[k].metadata.chunk_index)

\* the location that identifies an item: the path of a file item, the url of
\* an http item
Location(item) == IF Lower(item.source) = SourceFile THEN item.path ELSE item.url

\* C7: two documents returned by one call have the same external_id only if their items
\* have the same source and the same location and the chunk_index is the same.
C7_ExternalIdProvenance ==
    pc = "returned" =>
    \A k1, k2 \in 1..Len(normalized) :
        normalized[k1].external_id = normalized[k2].external_id =>
            /\ items[origin[k1]].source = items[origin[k2]].source
            /\ Location(items[origin[k1]]) = Location(items[origin[k2]])
            /\ normalized[k1].metadata.chunk_index = normalized[k2].metadata.chunk_index

\* C8: metadata.path of every document is non-empty; it is the item's path
\* when the item has one and the item's URL when an http item has none.
C8_MetaPathNonEmpty ==
    \A k \in 1..Len(normalized) :
        LET item == items[origin[k]]
            m    == normalized[k].metadata
        IN  /\ m.path # << >>
            /\ item.path # None => m.path = item.path[1]
            /\ (item.path = None /\ Lower(item.source) = SourceHttp) =>
                   (m.path = item.url[1] /\ m.url = item.url)

\* C8 witness: a returned call with a document of an http item without a path,
\* whose metadata.path is the URL.
C8_Witness ==
    /\ pc = "returned"
    /\ \E k \in 1..Len(normalized) :
           /\ items[origin[k]].source = SourceHttp
           /\ items[origin[k]].path = None
           /\ normalized[k].metadata.path = <<"u">>

\* C10: a second normalize call on the same items ends as the first did, and
\* when both return, the two lists have the same length and agree position by
\* position on text, chunk_index, total_chunks and external_id.
C10_NormalizeDeterministic ==
    (calls = 2 /\ pc \in {"returned", "raised"}) =>
        /\ previous.status = pc
        /\ Len(previous.docs) = Len(normalized)
        /\ \A k \in 1..Len(normalized) :
               /\ previous.docs[k].text = normalized[k].text
               /\ previous.docs[k].external_id = normalized[k].external_id
               /\ previous.docs[k].metadata.chunk_index
                      = normalized[k].metadata.chunk_index
               /\ previous.docs[k].metadata.total_chunks
                      = normalized[k].metadata.total_chunks

\* C10 witness: two returned calls on the same items with several documents,
\* stamped at different times.
C10_Witness ==
    /\ calls = 2
    /\ pc = "returned"
    /\ Len(normalized) >= 3
    /\ previous.docs[1].metadata.created_at # normalized[1].metadata.created_at

\* a document without its created_at
Timeless(doc) == [doc EXCEPT !.metadata.created_at = 0]

RECURSIVE Pending(_)
Pending(sents) ==
    IF sents = << >> THEN 0 ELSE Len(Head(sents)) + 2 + Pending(Tail(sents))

\* what is left to do: the stage of the call, then the sentences still to be
\* visited less the part of the oversized sentence already cut
Remaining ==
    CASE pc = "new"    -> 300
      [] pc = "call"   -> 200
      [] pc = "loop"   -> 100 + Pending(sentences)
      [] pc = "window" -> 100 + Pending(sentences) - (window_start + 1)
      [] OTHER         -> 0

\* C16: a TextNormalizer exists only with max_chunk_chars >= 1, __init__ ends
\* in ValueError exactly for an argument <= 0, and a call of _build_chunks on
\* a constructed TextNormalizer cannot loop: every step of the call, each
\* iteration of the while loop included, reduces what is left to do, and the
\* call returns the chunks of _build_chunks.
C16_PositiveChunkSize ==
    /\ [](pc \notin {"new", "value_error"} => max_chunk_chars >= 1)
    /\ [](pc = "value_error" <=> (pc # "new" /\ init_arg <= 0))
    /\ [](pc = "return" => chunks = _build_chunks(text, max_chunk_chars))
    /\ [](Remaining >= 0)
    /\ [][Remaining' < Remaining]_vars

\* C16 witness: a TextNormalizer built with max_chunk_chars = 2 has returned
\* from a call that ran the while loop three times on one sentence.
C16_Witness ==
    /\ pc = "return"
    /\ init_arg = 2
    /\ max_chunk_chars = 2
    /\ Len(chunks) = 3
    /\ window_start = 5

\* C18: a request whose context has an empty or whitespace-only space_id is
\* rejected by the validation of the request, and the space_id of a context
\* that the normalizer's endpoint accepted is non-empty and trimmed.
C18_BlankSpaceIdRejected ==
    (request.route = "/normalize" /\ calls >= 1) =>
        /\ Strip(request.context.space_id) # << >>
        /\ Strip(request.context.space_id) = request.context.space_id

\* a file item has a non-empty path and an http item has a url
Located(item) ==
    /\ item.source = SourceFile => (item.path # None /\ item.path # Some(<< >>))
    /\ item.source = SourceHttp => item.url # None

\* C19: constructing a RawItem, a CleanItemIn or a NormalizerItemIn from the
\* fields of a file item without a (non-empty) path or of an http item
\* without a url ends in a validation error, and no such item is among the
\* items the cleaner cleans or the normalizer chunks.
C19_LocationRequired ==
    /\ [][(pc = "construct" /\ ~Located(candidate)) => pc' = "validation_error"]_vars
    /\ [](\A i \in 1..Len(clean_items) : Located(clean_items[i]))
    /\ [](\A i \in 1..Len(items) : Located(items[i]))
    /\ []((pc = "validation_error" /\ ~Located(candidate)) =>
              (result = << >> /\ normalized = << >>))

\* C19 witness: a file item without a path was rejected when the RawItem was
\* constructed.
C19_Witness ==
    /\ pc = "validation_error"
    /\ stage = "RawItem"
    /\ candidate.source = SourceFile
    /\ candidate.path = None
    /\ candidate.content # << >>
    /\ clean_items = << >>
    /\ items = << >>

\* C24: fetch_urls never raises, and what it returns is one RawItem for each
\* URL whose GET was answered 2xx, in the order of the URLs.
C24_FetchNeverFails ==
    /\ pc # "fetch_raised"
    /\ pc = "fetch_returned" =>
           /\ \A i \in 1..Len(results) : results[i].kind \in {"none", "item"}
           /\ \A k \in 1..Len(NotNone(results)) :
                  NotNone(results)[k].source = SourceHttp

InFlight == Cardinality({i \in 1..Len(tasks) : tasks[i] = "in_flight"})

\* C30: the number of GET requests in flight never exceeds max_connections,
\* and every task that is not in flight holds no slot of the semaphore,
\* whether its request succeeded or failed.
C30_ConnectionsBounded ==
    (pc # "fetch_call" /\ urls # << >>) =>
        /\ InFlight <= max_connections
        /\ semaphore = max_connections - InFlight
        /\ semaphore >= 0

\* C30 witness: with max_connections = 1 and three URLs, one request has
\* failed, one is in flight and one task waits for the slot.
C30_Witness ==
    /\ max_connections = 1
    /\ Len(tasks) = 3
    /\ \E i, j, k \in 1..3 :
          /\ tasks[i] = "done" /\ results[i].kind = "none"
          /\ tasks[j] = "in_flight"
          /\ tasks[k] = "created"
    /\ semaphore = 0

\* the decoded size of a file, 0 when its content_b64 is not valid base64
SizeOf(f) ==
    LET decoded == _b64decode_strict(f.content_b64)
    IN  IF decoded = None THEN 0 ELSE Len(decoded[1])

RECURSIVE SumSizes(_, _)
SumSizes(fs, k) == IF k = 0 THEN 0 ELSE SumSizes(fs, k - 1) + SizeOf(fs[k])

\* the k-th file breaks a rule: invalid base64, larger than max_file_bytes,
\* or the sizes up to it add up to more than max_total_bytes
Offending(k) ==
    \/ _b64decode_strict(files[k].content_b64) = None
    \/ SizeOf(files[k]) > max_file_bytes
    \/ SumSizes(files, k) > max_total_bytes

\* C23: decode_to_file_contents returns only when no file is offending, and
\* then one FileContent per file in the order of the input; it raises at the
\* first offending file, and the files it has accepted so far are never
\* offending.
C23_DecodeAllOrNothing ==
    /\ \A k \in 1..Len(out) : ~Offending(k)
    /\ pc = "decode_returned" =>
           /\ \A k \in 1..Len(files) : ~Offending(k)
           /\ Len(out) = Len(files)
           /\ \A k \in 1..Len(files) :
                  /\ out[k].path = files[k].name
                  /\ Len(out[k].content) = SizeOf(files[k])
    /\ pc = "decode_raised" => (Len(out) < Len(files) /\ Offending(Len(out) + 1))

\* C23 witness: the second of two valid 3-byte files took the total over
\* max_total_bytes and the call raised after accepting the first.
C23_Witness ==
    /\ pc = "decode_raised"
    /\ Len(files) = 2
    /\ Len(out) = 1
    /\ out[1].content = <<65, 65, 65>>
    /\ SizeOf(files[2]) = 3
    /\ max_file_bytes = 3
    /\ total = 6
    /\ max_total_bytes = 4

\* C22: a well-formed POST /spaces/{space_id}/ingest of an authenticated
\* viewer is answered 403 with no KnowledgeSpace lookup made, no request of a
\* viewer ever adds a document to the index, and a viewer's POST
\* /spaces/{space_id}/query is never answered 403.
C22_ViewerCannotIngest ==
    (pc = "responded" /\ request.credentials = RoleViewer) =>
        /\ indexed_documents = << >>
        /\ (request.route = "/ingest" /\ request.body_valid) =>
               (response.status = 403 /\ space_lookups = 0)
        /\ request.route = "/query" => response.status # 403

\* C22 witness: a viewer's ingest request with a document, for a space that
\* exists, has been answered 403.
C22_Witness ==
    /\ pc = "responded"
    /\ request.route = "/ingest"
    /\ request.credentials = RoleViewer
    /\ request.space_exists
    /\ request.items # << >>
    /\ response.status = 403

\* C21: when the space_id of the URL path differs from context.space_id, the
\* documents of a valid request are sent to the Core API once, under the
\* context's space_id, and a 200 response echoes the request's context.
C21_ContextSpaceWins ==
    (/\ request.route = "/index"
     /\ pc = "responded"
     /\ IndexRequestValid(request)
     /\ request.items # << >>
     /\ request.space_id # request.context.space_id)
    => /\ Len(ingest_calls) = 1
       /\ ingest_calls[1].space_id = request.context.space_id
       /\ ingest_calls[1].documents = request.items
       /\ response.status \in {200, 502}
       /\ response.status = 200 => response.body.context = request.context

\* C20: POST /index/{space_id} with a valid body whose items list is empty
\* answers 200 with indexed = 0 and the context of the request, and no request
\* has been sent to the Core API.
C20_EmptyIndexReturnsZero ==
    (/\ request.route = "/index"
     /\ pc = "responded"
     /\ IndexRequestValid(request)
     /\ request.items = << >>)
    => /\ response.status = 200
       /\ response.body = [context |-> request.context, indexed |-> 0]
       /\ ingest_calls = << >>

\* C17: for items that passed NormalizerItemIn's validation (every item of
\* Spec has), normalize does not raise, and the documents it returns satisfy
\* the constraints of NormalizedDocument and Metadata.
C17_ValidItemsNeverRaise ==
    /\ pc # "raised"
    /\ pc = "returned" =>
           \A k \in 1..Len(normalized) : NormalizedDocumentValid(normalized[k])

(***************************************************************************)
(* Properties of TextCleaner.clean (checked under SpecClean).              *)
(***************************************************************************)
\* C12: clean never raises; the i-th output is built from the i-th input with
\* source, path and url carried over and raw_content equal to the content;
\* when the call returns there is exactly one output per input, also for an
\* input that cleans to the empty string.
C12_OneOutputPerItem ==
    /\ pc # "clean_raised"
    /\ Len(result) <= Len(clean_items)
    /\ \A i \in 1..Len(result) :
           /\ result[i].source = clean_items[i].source
           /\ result[i].path = clean_items[i].path
           /\ result[i].url = clean_items[i].url
           /\ result[i].raw_content = clean_items[i].content
    /\ pc = "clean_returned" => Len(result) = Len(clean_items)

\* C12 witness: a returned call on two different items, the first a tag that
\* cleans to the empty string, the second with text left after cleaning.
C12_Witness ==
    /\ pc = "clean_returned"
    /\ Len(clean_items) = 2
    /\ clean_items[1].content = BoldTag
    /\ result[1].cleaned_content = << >>
    /\ result[2].cleaned_content = Hidden
    /\ result[2].raw_content # Hidden
    /\ clean_items[1].source # clean_items[2].source

(***************************************************************************)
(* Properties of _clean_text (checked under SpecCleanText).                *)
(***************************************************************************)
\* the block whose opening tag, or whose closing tag, the token is
Opens(tok) ==
    IF tok = StyleOpen THEN StyleName
    ELSE IF tok = ScriptOpen THEN ScriptName ELSE << >>

Closes(tok) ==
    IF tok = StyleClose THEN StyleName
    ELSE IF tok = ScriptClose THEN ScriptName ELSE << >>

\* every Hidden piece of toks lies between an opening tag and the first
\* closing tag of the same name after it; `inside` is the block that is open
RECURSIVE HiddenEnclosed(_, _)
HiddenEnclosed(toks, inside) ==
    IF toks = << >> THEN TRUE
    ELSE LET tok  == Head(toks)
             rest == Tail(toks)
         IN  IF inside # << >>
             THEN HiddenEnclosed(rest, IF Closes(tok) = inside THEN << >> ELSE inside)
             ELSE /\ tok # Hidden
                  /\ HiddenEnclosed(rest,
                         IF Opens(tok) # << >>
                            /\ \E k \in 1..Len(rest) : Closes(rest[k]) = Opens(tok)
                         THEN Opens(tok) ELSE << >>)

HasChar(s, c) == \E k \in 1..Len(s) : s[k] = c

\* C13: when every "x" of the input lies between a <style> or <script>
\* opening tag and its closing tag, the text _clean_text returns holds no "x".
C13_StyleScriptContentRemoved ==
    (/\ pc = "clean_return"
     /\ \E k \in 1..Len(tokens) : tokens[k] = Hidden
     /\ HiddenEnclosed(tokens, << >>))
    => ~HasChar(cleaning_text, "x")

\* s holds a brace block with a colon: a "{" with a ":" before the next "}"
HasColonBlock(s) ==
    \E b \in 1..Len(s) :
        /\ s[b] = "{"
        /\ LET c == FindLit(s, b + 1, <<"}">>)
           IN  c # 0 /\ \E k \in (b + 1)..(c - 1) : s[k] = ":"

\* C14 as stated: for an input without "&" and without "<" (no entities, no
\* tags), _clean_text returns the whitespace normalization of the input.
C14_NoMarkupMeansNormalized ==
    (pc = "clean_return" /\ ~HasChar(raw, "&") /\ ~HasChar(raw, "<"))
        => cleaning_text = _normalize_whitespace(raw)

\* C14 amended: for an input without "&", without "<" and without a brace
\* block that holds a colon, _clean_text returns the whitespace normalization
\* of the input (runs of whitespace collapsed to one space, ends trimmed).
C14_PlainTextNormalized ==
    (/\ pc = "clean_return"
     /\ ~HasChar(raw, "&")
     /\ ~HasChar(raw, "<")
     /\ ~HasColonBlock(raw))
    => cleaning_text = _normalize_whitespace(raw)

\* C14 witness: a word, a space, the brace text {this} and a newline come back
\* with the braces kept and the whitespace normalized.
C14_Witness ==
    /\ pc = "clean_return"
    /\ Len(tokens) = 4
    /\ tokens[1] \in WordTokens
    /\ tokens[2] = Space
    /\ tokens[3] = BraceText
    /\ tokens[4] = NewLine
    /\ cleaning_text = tokens[1] \o Space \o BraceText

\* the text is words, whitespace and CSS rules, and no rule is glued to a
\* word on its left (the word would be part of its selector)
WordsAndRules(toks) ==
    /\ \A k \in 1..Len(toks) : toks[k] \in WordTokens \cup RuleTokens \cup {Space, NewLine}
    /\ \E k \in 1..Len(toks) : toks[k] \in RuleTokens
    /\ \A k \in 2..Len(toks) : toks[k] \in RuleTokens => toks[k - 1] \notin WordTokens

\* the text with a single space in the place of every CSS rule
RulesBlanked(toks) ==
    Concat([k \in 1..Len(toks) |-> IF toks[k] \in RuleTokens THEN Space ELSE toks[k]])

C5_ContextPropagated ==
    (pc = "responded" /\ NormalizeRequestValid(request)) =>
        /\ response.status = 200
        /\ "context" \in DOMAIN response.body
        /\ response.body.context = request.context

(***************************************************************************)
(* Properties of the packing loop of _build_chunks (checked under          *)
(* SpecChunk).                                                             *)
(***************************************************************************)
\* the loop is about to handle a sentence that fits in one chunk
PackingStep ==
    /\ pc = "loop"
    /\ sentences # << >>
    /\ sentences' = Tail(sentences)
    /\ Len(Head(sentences)) \in 1..max_chunk_chars

\* length the running chunk would have with the sentence s joined to it
JoinedLen(s) ==
    Len(Join(current_parts)) + (IF current_parts # << >> THEN 1 ELSE 0) + Len(s)

\* C25: greedy packing is maximal. While the loop runs, current_len is the
\* length of the space-joined current_parts; a sentence s of length
\* <= max_chunk_chars is appended to the running chunk exactly when running
\* length + 1 (if the chunk is non-empty) + len(s) <= max_chunk_chars, and
\* otherwise the running chunk is closed with
\* len(closed chunk) + 1 + len(s) > max_chunk_chars and s starts the next one.
C25_GreedyPackingMaximal ==
    /\ [](pc = "loop" => current_len = Len(Join(current_parts)))
    /\ [][PackingStep =>
            LET s == Head(sentences)
            IN  IF JoinedLen(s) <= max_chunk_chars
                THEN /\ chunks' = chunks
                     /\ current_parts' = Append(current_parts, s)
                     /\ current_len' = JoinedLen(s)
                ELSE /\ current_parts # << >>
                     /\ chunks' = Append(chunks, Join(current_parts))
                     /\ Len(Join(current_parts)) + 1 + Len(s) > max_chunk_chars
                     /\ current_parts' = <<s>>
                     /\ current_len' = Len(s)]_vars

\* C25 witness: the loop holds a running chunk of two sentences that fills
\* max_chunk_chars exactly, after having closed an earlier chunk that the
\* next sentence did not fit in.
C25_Witness ==
    /\ pc = "loop"
    /\ Len(current_parts) = 2
    /\ current_len = max_chunk_chars
    /\ Len(chunks) = 1
    /\ Len(chunks[1]) + 1 + Len(current_parts[1]) > max_chunk_chars
    /\ Len(chunks[1]) < max_chunk_chars

\* the loop is about to handle a sentence longer than max_chunk_chars
OversizedStep ==
    /\ pc = "loop"
    /\ sentences # << >>
    /\ sentences' = Tail(sentences)
    /\ Len(Head(sentences)) > max_chunk_chars

\* C26: hard-split windows are isolated. When the loop meets a sentence longer
\* than max_chunk_chars, the chunk being accumulated (if any) is emitted
\* first, the chunks emitted after it are windows whose characters are
\* exactly those of the sentence, and nothing stays open, so the sentence
\* that follows starts a fresh chunk; no chunk once emitted is ever changed.
C26_WindowsIsolated ==
    /\ [][OversizedStep =>
            LET s       == Head(sentences)
                flushed == IF current_parts # << >>
                           THEN Append(chunks, Join(current_parts))
                           ELSE chunks
                windows == SubSeq(chunks', Len(flushed) + 1, Len(chunks'))
            IN  /\ Len(chunks') > Len(flushed)
                /\ SubSeq(chunks', 1, Len(flushed)) = flushed
                /\ Concat(windows) = s
                /\ \A i \in 1..Len(windows) : windows[i] # << >>
                /\ current_parts' = << >>
                /\ current_len' = 0]_vars
    /\ [][/\ Len(chunks') >= Len(chunks)
          /\ SubSeq(chunks', 1, Len(chunks)) = chunks]_vars

\* C26 witness: a finished call on an oversized sentence followed by a short
\* one that would have fitted after the last, short window, and is a chunk
\* of its own.
C26_Witness ==
    /\ pc = "return"
    /\ LET sents == _split_into_sentences(_normalize_whitespace(text))
           n     == Len(chunks)
       IN  /\ Len(sents) = 2
           /\ Len(sents[1]) > max_chunk_chars
           /\ n >= 3
           /\ chunks[n] = sents[2]
           /\ Len(chunks[n - 1]) + 1 + Len(chunks[n]) <= max_chunk_chars

\* position i of str is '.', '!' or '?' and a space follows it
BoundaryAt(str, i) == str[i] \in {".", "!", "?"} /\ str[i + 1] = " "

\* ss are the sentences of the whitespace-normalized text t: the pieces t
\* falls into when cut at every space that follows '.', '!' or '?'
SentencesOf(ss, t) ==
    /\ Join(ss) = t
    /\ \A k \in 1..Len(ss) :
           /\ ss[k] # << >>
           /\ \A i \in 1..(Len(ss[k]) - 1) : ~BoundaryAt(ss[k], i)
    /\ \A k \in 1..(Len(ss) - 1) : ss[k][Len(ss[k])] \in {".", "!", "?"}

\* the chunks cs are the sentences ss taken in order, each sentence of at
\* most max_len characters whole inside one chunk next to whole neighbours,
\* each longer sentence alone in two or more chunks
RECURSIVE RespectsSentences(_, _, _)
RespectsSentences(cs, ss, max_len) ==
    IF ss = << >> THEN cs = << >>
    ELSE IF Len(Head(ss)) > max_len
         THEN \E n \in 2..Len(cs) :
                  /\ Concat(SubSeq(cs, 1, n)) = Head(ss)
                  /\ RespectsSentences(SubSeq(cs, n + 1, Len(cs)), Tail(ss), max_len)
         ELSE /\ cs # << >>
              /\ \E m \in 1..Len(ss) :
                     /\ \A k \in 1..m : Len(ss[k]) <= max_len
                     /\ Head(cs) = Join(SubSeq(ss, 1, m))
                     /\ RespectsSentences(Tail(cs), SubSeq(ss, m + 1, Len(ss)),
                                          max_len)

\* C27: chunk boundaries respect sentences. When _build_chunks returns, the
\* sentences of the normalized text are its pieces ending at '.', '!' or '?'
\* followed by whitespace (punctuation kept), every sentence of length
\* <= max_chunk_chars lies whole in exactly one chunk, and only sentences
\* longer than max_chunk_chars are cut.
C27_SentencesKeptWhole ==
    pc = "return" =>
        LET t  == _normalize_whitespace(text)
            ss == _split_into_sentences(t)
        IN  /\ SentencesOf(ss, t)
            /\ RespectsSentences(chunks, ss, max_chunk_chars)

\* C27 witness: a finished call where the first chunk had room left for the
\* head of the second sentence, which is nevertheless whole in the second
\* chunk.
C27_Witness ==
    /\ pc = "return"
    /\ LET ss == _split_into_sentences(_normalize_whitespace(text))
       IN  /\ Len(ss) = 2
           /\ Len(ss[2]) \in 2..max_chunk_chars
           /\ chunks = ss
           /\ Len(chunks[1]) + 1 < max_chunk_chars

(***************************************************************************)
(* Properties of the CSS removal loop of _clean_text (checked under        *)
(* SpecCleanText).                                                         *)
(***************************************************************************)
\* steps _clean_text still has to take before it returns, at most
CleanRank ==
    CASE pc = "clean_call"   -> 8
      [] pc = "style_script" -> 7
      [] pc = "comments"     -> 6
      [] pc = "tags"         -> 5
      [] pc = "css"          -> 4 - css_pass
      [] pc = "whitespace"   -> 1
      [] OTHER               -> 0

\* C28: the CSS removal of _clean_text is a bounded fix-point loop. It runs
\* at most 3 substitution passes; a pass that leaves the text unchanged is
\* the last one; a further pass is started only after a pass that changed
\* the text and while fewer than 3 have run; and every step of _clean_text
\* brings the return closer, so cleaning terminates on every input.
C28_CssLoopBounded ==
    /\ [](/\ css_pass \in 0..3
          /\ pc = "css" => css_pass < 3
          /\ CleanRank >= 0)
    /\ [][pc = "css" =>
            /\ css_pass' = css_pass + 1
            /\ cleaning_text' = _CSS_BLOCK_RE_sub(cleaning_text)
            /\ cleaning_text' = cleaning_text => pc' = "whitespace"
            /\ pc' \in {"css", "whitespace"}
            /\ pc' = "css" <=> (cleaning_text' # cleaning_text /\ css_pass' < 3)]_vars
    /\ [][CleanRank' < CleanRank]_vars

\* C28 witness: the loop left after three passes that all changed the text.
C28_Witness ==
    /\ pc = "whitespace"
    /\ css_pass = 3
    /\ LET before == _TAG_RE_sub(_HTML_COMMENT_RE_sub(
                         _STYLE_SCRIPT_BLOCK_RE_sub(Unescape(raw))))
           first  == _CSS_BLOCK_RE_sub(before)
           second == _CSS_BLOCK_RE_sub(first)
       IN  /\ first # before
           /\ second # first
           /\ cleaning_text # second

\* C29: the output of _clean_text is a fix-point of CSS removal: applying
\* _CSS_BLOCK_RE.sub(" ", .) to the returned text changes nothing.
C29_OutputIsCssFixpoint ==
    pc = "clean_return" => _CSS_BLOCK_RE_sub(cleaning_text) = cleaning_text

====
